---- MODULE Spec2Model ----
(***************************************************************************)
(* A model of the yams-repo edge worker (src/worker/src/worker.ts) and of  *)
(* the store and limiter it is run against (src/worker/test/mocks.ts).     *)
(*                                                                         *)
(* Strings are TLA+ strings; the JavaScript string built-ins the worker    *)
(* uses (endsWith, startsWith, replace, substring, split, ...) are         *)
(* operators computed character by character with Len, SubSeq and \o.      *)
(* A request header that is absent is the empty string: every place the    *)
(* worker reads a header treats null and '' alike (|| and && and ?.).      *)
(***************************************************************************)
EXTENDS Integers, Sequences, FiniteSets, TLC

VARIABLES
    objects,    \* MockR2Bucket.objects: key -> [content, httpEtag]
    limits,     \* MockRateLimiter.limits: client key -> [count, resetAt]
    now,        \* Date.now() as seen by the limiter, in periods' ticks
    config,     \* Env: APT_PREFIX, YUM_PREFIX, LATEST_MANIFEST
    req,        \* the request last handed to fetch (NoRequest before any)
    renv,       \* the bindings' condition during that request
    out         \* what fetch settled to: a response or a rejection, with its calls

vars == <<objects, limits, now, config, req, renv, out>>

(***************************************************************************)
(* Bounds of the model.                                                    *)
(***************************************************************************)
MaxObjects == 2     \* objects the bucket holds at most
MaxNow == 1         \* ticks the limiter's clock advances at most
MaxRequests == 1    \* MockRateLimiter's maxRequests constructor argument
PeriodTicks == 1    \* MockRateLimiter's periodSeconds, in ticks

MaxListed == 3      \* objects in the bucket a listing is made of
MaxStored == 3      \* objects in the bucket the plugin API reads
MaxConcurrent == 2  \* invocations of fetch in progress at once

(***************************************************************************)
(* JavaScript string built-ins.                                            *)
(***************************************************************************)
Min(S) == CHOOSE m \in S : \A n \in S : m <= n

charAt(s, i) == SubSeq(s, i + 1, i + 1)

endsWith(s, suffix) ==
    /\ Len(s) >= Len(suffix)
    /\ SubSeq(s, Len(s) - Len(suffix) + 1, Len(s)) = suffix

startsWith(s, prefix) ==
    /\ Len(s) >= Len(prefix)
    /\ SubSeq(s, 1, Len(prefix)) = prefix

\* s.substring(n): from the 0-based index n to the end
substring(s, n) == IF n >= Len(s) THEN "" ELSE SubSeq(s, n + 1, Len(s))

\* s.indexOf(pat): the 0-based index of the first occurrence, or -1
indexOf(s, pat) ==
    LET hits == {i \in 0..(Len(s) - Len(pat)) : SubSeq(s, i + 1, i + Len(pat)) = pat}
    IN  IF hits = {} THEN -1 ELSE Min(hits)

includes(s, pat) == indexOf(s, pat) >= 0

\* s.replace(pat, rep) with a string pattern: the first occurrence only
replace(s, pat, rep) ==
    LET i == indexOf(s, pat)
    IN  IF i < 0 THEN s
        ELSE SubSeq(s, 1, i) \o rep \o SubSeq(s, i + Len(pat) + 1, Len(s))

\* s.split('/'): the pieces between the separators, empty pieces included
RECURSIVE split(_, _)
split(s, sep) ==
    LET i == indexOf(s, sep)
    IN  IF i < 0 THEN <<s>>
        ELSE <<SubSeq(s, 1, i)>> \o split(substring(s, i + Len(sep)), sep)

\* xs.filter(p => p.length > 0)
RECURSIVE nonEmpty(_)
nonEmpty(xs) ==
    IF xs = <<>> THEN <<>>
    ELSE IF Len(Head(xs)) > 0 THEN <<Head(xs)>> \o nonEmpty(Tail(xs))
         ELSE nonEmpty(Tail(xs))

(***************************************************************************)
(* Character order.  Array.prototype.sort() without a comparator orders by *)
(* UTF-16 code unit; localeCompare orders by the collation of the locale.  *)
(***************************************************************************)
\* U+0020..U+005F and U+0061..U+007E (the grave accent U+0060 is left out)
AsciiLow == " !\"#$%&'()*+,-./0123456789:;<=>?@ABCDEFGHIJKLMNOPQRSTUVWXYZ[\\]^_"

AsciiHigh == "abcdefghijklmnopqrstuvwxyz{|}~"

Chars ==
    {charAt(AsciiLow, i) : i \in 0..(Len(AsciiLow) - 1)}
        \cup {charAt(AsciiHigh, i) : i \in 0..(Len(AsciiHigh) - 1)}

CodeUnit ==
    [c \in Chars |->
        IF includes(AsciiLow, c) THEN 32 + indexOf(AsciiLow, c)
        ELSE 97 + indexOf(AsciiHigh, c)]

\* a < b by code units (the default sort order of strings)
RECURSIVE codeUnitLess(_, _)
codeUnitLess(a, b) ==
    IF Len(b) = 0 THEN FALSE
    ELSE IF Len(a) = 0 THEN TRUE
    ELSE LET ca == CodeUnit[charAt(a, 0)]
             cb == CodeUnit[charAt(b, 0)]
         IN  IF ca # cb THEN ca < cb
             ELSE codeUnitLess(substring(a, 1), substring(b, 1))

\* Array.from(set): the elements of a set as a sequence
RECURSIVE arrayFrom(_)
arrayFrom(S) ==
    IF S = {} THEN <<>>
    ELSE LET m == CHOOSE x \in S : TRUE
         IN  <<m>> \o arrayFrom(S \ {m})

(***************************************************************************)
(* Responses.  A body is a record with a kind: "null" (no body), "json"    *)
(* (the value handed to JSON.stringify, a property whose value is          *)
(* undefined being left out of the record as stringify leaves it out of    *)
(* the text), "stream" (an object's bytes) or "html".                      *)
(***************************************************************************)
NoHeaders == [n \in {} |-> ""]

\* headers.set(k, v)
HeadersSet(h, k, v) == (k :> v) @@ h

\* headers.get(k): the empty string stands for null
HeadersGet(h, k) == IF k \in DOMAIN h THEN h[k] ELSE ""

Response(body, status, headers) == [status |-> status, headers |-> headers, body |-> body]

NullBody == [kind |-> "null"]

JsonBody(value) == [kind |-> "json", value |-> value]

StreamBody(content) == [kind |-> "stream", content |-> content]

JsonContentType == "application/json; charset=utf-8"

SECURITY_HEADERS ==
    <<  <<"X-Content-Type-Options", "nosniff">>,
        <<"X-Frame-Options", "DENY">>,
        <<"Referrer-Policy", "no-referrer">>,
        <<"X-XSS-Protection", "1; mode=block">>,
        <<"Permissions-Policy", "geolocation=(), microphone=(), camera=()">> >>

TEXT_TYPES ==
    <<  <<".json", "application/json; charset=utf-8">>,
        <<".txt", "text/plain; charset=utf-8">>,
        <<".md", "text/markdown; charset=utf-8">>,
        <<".xml", "application/xml; charset=utf-8">>,
        <<"Release", "text/plain; charset=utf-8">>,
        <<"InRelease", "text/plain; charset=utf-8">>,
        <<"Packages", "text/plain; charset=utf-8">>,
        <<".repo", "text/plain; charset=utf-8">> >>

BINARY_TYPES ==
    <<  <<".deb", "application/vnd.debian.binary-package">>,
        <<".rpm", "application/x-rpm">>,
        <<".gz", "application/gzip">>,
        <<".xz", "application/x-xz">>,
        <<".bz2", "application/x-bzip2">>,
        <<".key", "application/pgp-keys">> >>

\* undefined, where the worker only tests it for falsiness
Undefined == ""

\* the first entry of an ordered table whose suffix the key ends with
firstMatch(table, key) ==
    LET hits == {i \in 1..Len(table) : endsWith(key, table[i][1])}
    IN  IF hits = {} THEN Undefined ELSE table[Min(hits)][2]

\* text, binary: what the two tables give for the key
guessFrom(text, binary, key) ==
    IF text # Undefined THEN text
    ELSE IF binary # Undefined THEN binary
    ELSE IF endsWith(key, "/") THEN "text/plain; charset=utf-8"
    ELSE Undefined

\* the first entry of an ordered table whose suffix the key holds anywhere
firstContained(table, key) ==
    LET hits == {i \in 1..Len(table) : includes(key, table[i][1])}
    IN  IF hits = {} THEN Undefined ELSE table[Min(hits)][2]

\* a lookup by key.includes(ext) instead of key.endsWith(ext)
guessContentTypeContains(key) ==
    guessFrom(firstContained(TEXT_TYPES, key), firstContained(BINARY_TYPES, key), key)

\* a lookup that knows the dotted extensions only, not Release, InRelease, Packages
guessContentTypeDotted(key) ==
    guessFrom(firstMatch(SelectSeq(TEXT_TYPES, LAMBDA e : charAt(e[1], 0) = "."), key),
              firstMatch(BINARY_TYPES, key), key)

guessContentType(key) ==
    guessFrom(firstMatch(TEXT_TYPES, key), firstMatch(BINARY_TYPES, key), key)

\* immutable for Debian packages only
immutableDebOnly(path) == endsWith(path, ".deb")

immutable(path) == endsWith(path, ".deb") \/ endsWith(path, ".rpm")

RECURSIVE setAll(_, _)
setAll(h, entries) ==
    IF entries = <<>> THEN h
    ELSE setAll(HeadersSet(h, Head(entries)[1], Head(entries)[2]), Tail(entries))

addSecurityHeaders(h) == setAll(h, SECURITY_HEADERS)

\* cfId is Undefined when the request carries no CF-Ray
notFound(msg, cfId) ==
    Response(
        JsonBody(IF cfId = Undefined THEN [error |-> msg]
                 ELSE [error |-> msg, cfRay |-> cfId]),
        404,
        HeadersSet(NoHeaders, "Content-Type", JsonContentType))

normalizePath(p) == IF startsWith(p, "/") THEN substring(p, 1) ELSE p

(***************************************************************************)
(* What an async function settles to: a response, or a rejection with the  *)
(* error thrown.  calls are the store and limiter calls made, in order;    *)
(* streams are the object bodies obtained and what became of each.         *)
(***************************************************************************)
NoResponse == Response(NullBody, 0, NoHeaders)

Settled(res, calls, streams) ==
    [rejected |-> FALSE, error |-> "", res |-> res, calls |-> calls, streams |-> streams]

Rejected(err, calls, streams) ==
    [rejected |-> TRUE, error |-> err, res |-> NoResponse, calls |-> calls, streams |-> streams]

Call(op, arg, result) == [op |-> op, arg |-> arg, result |-> result]

StoreError == "Error: store unavailable"

(***************************************************************************)
(* MockR2Bucket.  objs is the Map of objects; an object's size is the      *)
(* byte length of its content.                                             *)
(***************************************************************************)
DefaultListLimit == 1000

size(obj) == Len(obj.content)

\* objects.set(key, ...) of MockR2Bucket.set
BucketPut(objs, key, content, etag) ==
    (key :> [content |-> content, httpEtag |-> etag]) @@ objs

\* list({prefix, delimiter: '/', limit}): the files directly under the prefix
\* and the prefixes of the keys that lie deeper.  The Map's iteration order is
\* taken to be the keys' order; the worker sorts what it is given.
BucketList(objs, prefix, delimiter, limit) ==
    LET matchingKeys == {k \in DOMAIN objs : startsWith(k, prefix)}
        relativePath(k) == substring(k, Len(prefix))
        delimiterIndex(k) == indexOf(relativePath(k), delimiter)
        prefixes ==
            {prefix \o SubSeq(relativePath(k), 1, delimiterIndex(k) + 1) :
                k \in {m \in matchingKeys : delimiterIndex(m) >= 0}}
        files ==
            SortSeq(
                arrayFrom({k \in matchingKeys :
                    delimiterIndex(k) < 0 /\ Len(relativePath(k)) > 0}),
                codeUnitLess)
    IN  [ objects |->
            [i \in 1..(IF Len(files) < limit THEN Len(files) ELSE limit) |->
                [key |-> files[i], size |-> size(objs[files[i]])]],
          truncated |-> Len(files) > limit,
          delimitedPrefixes |-> SortSeq(arrayFrom(prefixes), codeUnitLess) ]

(***************************************************************************)
(* String.prototype.localeCompare: the root collation on ASCII.  Strings   *)
(* are compared by their characters' primary weights first (punctuation,   *)
(* then digits, then letters without regard to case) and, when those are   *)
(* all equal, by case, lower case first.                                   *)
(***************************************************************************)
Collation == " _-,;:!?.'\"()[]{}@*/\\&#%^+<=>|~$0123456789abcdefghijklmnopqrstuvwxyz"

UpperCase == "ABCDEFGHIJKLMNOPQRSTUVWXYZ"

LowerCase == "abcdefghijklmnopqrstuvwxyz"

isUpper(c) == includes(UpperCase, c)

toLower(c) == IF isUpper(c) THEN charAt(LowerCase, indexOf(UpperCase, c)) ELSE c

Primary == [c \in Chars |-> indexOf(Collation, toLower(c))]

RECURSIVE primaryCompare(_, _)
primaryCompare(a, b) ==
    IF a = "" THEN (IF b = "" THEN 0 ELSE -1)
    ELSE IF b = "" THEN 1
    ELSE LET pa == Primary[charAt(a, 0)]
             pb == Primary[charAt(b, 0)]
         IN  IF pa < pb THEN -1
             ELSE IF pa > pb THEN 1
             ELSE primaryCompare(substring(a, 1), substring(b, 1))

\* for strings of equal primary weights (so of equal length)
RECURSIVE caseCompare(_, _)
caseCompare(a, b) ==
    IF a = "" \/ b = "" THEN 0
    ELSE LET ua == isUpper(charAt(a, 0))
             ub == isUpper(charAt(b, 0))
         IN  IF ua = ub THEN caseCompare(substring(a, 1), substring(b, 1))
             ELSE IF ub THEN -1 ELSE 1

\* primary: the outcome of the comparison of the primary weights
orByCase(primary, a, b) == IF primary # 0 THEN primary ELSE caseCompare(a, b)

localeCompare(a, b) == orByCase(primaryCompare(a, b), a, b)

\* the order of sort() with no comparator
byNameCodeUnits(a, b) == codeUnitLess(a.name, b.name)

\* entries.sort((a, b) => a.name.localeCompare(b.name))
byName(a, b) == localeCompare(a.name, b.name) < 0

(***************************************************************************)
(* Directory listings.                                                     *)
(***************************************************************************)
\* s.replace(/pat/g, rep) for a one-character pattern
RECURSIVE replaceAll(_, _, _)
replaceAll(s, pat, rep) ==
    LET i == indexOf(s, pat)
    IN  IF i < 0 THEN s
        ELSE SubSeq(s, 1, i) \o rep \o replaceAll(substring(s, i + Len(pat)), pat, rep)

escapeHtml(unsafe) ==
    replaceAll(
        replaceAll(
            replaceAll(
                replaceAll(
                    replaceAll(unsafe, "&", "&amp;"),
                    "<", "&lt;"),
                ">", "&gt;"),
            "\"", "&quot;"),
        "'", "&#039;")

RECURSIVE pow(_, _)
pow(k, i) == IF i = 0 THEN 1 ELSE k * pow(k, i - 1)

\* floor(log(bytes) / log(1024)), and the quotient to one decimal place
formatBytes(bytes) ==
    IF bytes = 0 THEN "0 B"
    ELSE LET k == 1024
             sizes == <<"B", "KB", "MB", "GB">>
             i == CHOOSE j \in 0..8 : pow(k, j) <= bytes /\ bytes < pow(k, j + 1)
             tenths == (bytes * 20 + pow(k, i)) \div (2 * pow(k, i))
         IN  ToString(tenths \div 10) \o "." \o ToString(tenths % 10) \o " "
                \o (IF i + 1 <= Len(sizes) THEN sizes[i + 1] ELSE "undefined")

RECURSIVE crumbs(_, _)
crumbs(parts, currentPath) ==
    IF parts = <<>> THEN ""
    ELSE LET next == currentPath \o "/" \o Head(parts)
         IN  " / <a href=\"" \o next \o "/\">" \o escapeHtml(Head(parts)) \o "</a>"
                \o crumbs(Tail(parts), next)

generateBreadcrumbs(path) ==
    IF path = "/" THEN ""
    ELSE "<div class=\"breadcrumb\"><a href=\"/\">Home</a>"
            \o crumbs(nonEmpty(split(path, "/")), "")
            \o "</div>"

\* the page of listDirectory: its title, heading, breadcrumb trail, the parent
\* row and one row per entry (the last-modified column is not modelled)
HtmlBody(displayPath, allEntries) ==
    [ kind |-> "html",
      title |-> "Index of " \o escapeHtml(displayPath),
      heading |-> "Index of " \o escapeHtml(displayPath),
      breadcrumbs |-> generateBreadcrumbs(displayPath),
      parentRow |-> displayPath # "/",
      rows |->
        [i \in 1..Len(allEntries) |->
            [ dir |-> allEntries[i].isDir,
              href |-> escapeHtml(allEntries[i].name),
              text |-> escapeHtml(allEntries[i].name),
              size |-> IF allEntries[i].isDir THEN "-"
                       ELSE formatBytes(allEntries[i].size) ]] ]

\* a listing rendered as HTML whatever the client accepts
renderListingAsHtml(allEntries, displayPath, acceptJson) ==
    Response(
        HtmlBody(displayPath, allEntries),
        200,
        HeadersSet(
            HeadersSet(addSecurityHeaders(NoHeaders),
                       "Content-Type", "text/html; charset=utf-8"),
            "Cache-Control", "public, max-age=60"))

\* the response for the entries of a listing, directories first
renderListing(allEntries, displayPath, acceptJson) ==
    IF acceptJson
    THEN Response(
            JsonBody([ path |-> displayPath,
                       files |-> [i \in 1..Len(allEntries) |-> allEntries[i].name] ]),
            200,
            HeadersSet(addSecurityHeaders(NoHeaders), "Content-Type", JsonContentType))
    ELSE Response(
            HtmlBody(displayPath, allEntries),
            200,
            HeadersSet(
                HeadersSet(addSecurityHeaders(NoHeaders),
                           "Content-Type", "text/html; charset=utf-8"),
                "Cache-Control", "public, max-age=60"))

\* listDirectory once the store has answered with listing
listDirectoryOf(listing, normalizedPrefix, displayPath, acceptJson) ==
    IF Len(listing.objects) = 0 /\ Len(listing.delimitedPrefixes) = 0
    THEN notFound("directory not found", Undefined)
    ELSE renderListing(
            SortSeq(
                [i \in 1..Len(listing.delimitedPrefixes) |->
                    [ name |-> substring(listing.delimitedPrefixes[i], Len(normalizedPrefix)),
                      size |-> 0,
                      isDir |-> TRUE ]],
                byName)
            \o SortSeq(
                [i \in 1..Len(listing.objects) |->
                    [ name |-> substring(listing.objects[i].key, Len(normalizedPrefix)),
                      size |-> listing.objects[i].size,
                      isDir |-> FALSE ]],
                byName),
            displayPath, acceptJson)

\* fault is the store call that throws during this request: "none", "get" or "list"
listDirectory(objs, fault, prefix, displayPath, acceptJson) ==
    IF fault = "list"
    THEN Rejected(StoreError, <<Call("list", normalizePath(prefix), "threw")>>, <<>>)
    ELSE Settled(
            listDirectoryOf(
                BucketList(objs, normalizePath(prefix), "/", DefaultListLimit),
                normalizePath(prefix), displayPath, acceptJson),
            <<Call("list", normalizePath(prefix), "ok")>>, <<>>)

(***************************************************************************)
(* The object server.                                                      *)
(***************************************************************************)
\* obj.httpEtag || `W/"${obj.size}"`
\* a fallback tag derived from the content instead of the size
entityTagOfContent(obj) ==
    IF obj.httpEtag # "" THEN obj.httpEtag ELSE "W/\"" \o obj.content \o "\""

entityTag(obj) ==
    IF obj.httpEtag # "" THEN obj.httpEtag ELSE "W/\"" \o ToString(size(obj)) \o "\""

\* the headers of a 200 or 304 for the object at key; ct is guessContentType(key)
objectHeaders(key, obj, ct) ==
    HeadersSet(
        HeadersSet(
            HeadersSet(
                HeadersSet(addSecurityHeaders(NoHeaders), "Content-Type",
                           IF ct # Undefined THEN ct ELSE "application/octet-stream"),
                "Cache-Control",
                IF immutable(key) THEN "public, max-age=31536000, immutable"
                ELSE "public, max-age=300"),
            "ETag", entityTag(obj)),
        "Content-Length", ToString(size(obj)))

\* serveHit answering 304 to any If-None-Match, whatever the tag it names
serveHitAnyTag(key, obj, headers, r) ==
    IF r.ifNoneMatch # ""
    THEN Settled(Response(NullBody, 304, headers),
                 <<Call("get", key, "hit")>>,
                 <<[key |-> key, fate |-> "cancelled"]>>)
    ELSE Settled(Response(StreamBody(obj.content), 200, headers),
                 <<Call("get", key, "hit")>>,
                 <<[key |-> key, fate |-> "streamed"]>>)

\* serveHit answering 304 without obj.body.cancel(): the body stays open
serveHitNoCancel(key, obj, headers, r) ==
    IF r.ifNoneMatch # "" /\ r.ifNoneMatch = entityTag(obj)
    THEN Settled(Response(NullBody, 304, headers),
                 <<Call("get", key, "hit")>>,
                 <<[key |-> key, fate |-> "open"]>>)
    ELSE Settled(Response(StreamBody(obj.content), 200, headers),
                 <<Call("get", key, "hit")>>,
                 <<[key |-> key, fate |-> "streamed"]>>)

\* the object was found: 304 when If-None-Match is the tag, else 200 with the body
serveHit(key, obj, headers, r) ==
    IF r.ifNoneMatch # "" /\ r.ifNoneMatch = entityTag(obj)
    THEN Settled(Response(NullBody, 304, headers),
                 <<Call("get", key, "hit")>>,
                 <<[key |-> key, fate |-> "cancelled"]>>)
    ELSE Settled(Response(StreamBody(obj.content), 200, headers),
                 <<Call("get", key, "hit")>>,
                 <<[key |-> key, fate |-> "streamed"]>>)

\* no object at key: the answer once the probe for children has returned listing
serveMiss(listing, displayPath, r) ==
    IF Len(listing.objects) > 0 \/ Len(listing.delimitedPrefixes) > 0
    THEN Response(NullBody, 301, HeadersSet(NoHeaders, "Location", displayPath \o "/"))
    ELSE notFound("object not found", r.cfRay)

\* the probe made with the key as it is, no '/' appended
probePrefixBare(key) == key

\* key.endsWith('/') ? key : key + '/'
probePrefix(key) == IF endsWith(key, "/") THEN key ELSE key \o "/"

\* an object server that looks the key up before it looks at the trailing '/'
serveObjectFirst(objs, fault, key, displayPath, r) ==
    IF fault = "get"
    THEN Rejected(StoreError, <<Call("get", key, "threw")>>, <<>>)
    ELSE IF key \in DOMAIN objs
    THEN serveHit(key, objs[key], objectHeaders(key, objs[key], guessContentType(key)), r)
    ELSE IF endsWith(displayPath, "/")
    THEN [listDirectory(objs, fault, key, displayPath, includes(r.accept, "application/json"))
            EXCEPT !.calls = <<Call("get", key, "miss")>> \o @]
    ELSE IF fault = "list"
    THEN Rejected(StoreError,
                  <<Call("get", key, "miss"), Call("list", probePrefix(key), "threw")>>,
                  <<>>)
    ELSE Settled(
            serveMiss(BucketList(objs, probePrefix(key), "/", 1), displayPath, r),
            <<Call("get", key, "miss"), Call("list", probePrefix(key), "ok")>>,
            <<>>)

serveObjectOrDirectory(objs, fault, key, displayPath, r) ==
    IF endsWith(displayPath, "/")
    THEN listDirectory(objs, fault, key, displayPath, includes(r.accept, "application/json"))
    ELSE IF fault = "get"
    THEN Rejected(StoreError, <<Call("get", key, "threw")>>, <<>>)
    ELSE IF key \notin DOMAIN objs
    THEN
        IF fault = "list"
        THEN Rejected(StoreError,
                      <<Call("get", key, "miss"), Call("list", probePrefix(key), "threw")>>,
                      <<>>)
        ELSE Settled(
                serveMiss(BucketList(objs, probePrefix(key), "/", 1), displayPath, r),
                <<Call("get", key, "miss"), Call("list", probePrefix(key), "ok")>>,
                <<>>)
    ELSE serveHit(key, objs[key], objectHeaders(key, objs[key], guessContentType(key)), r)

(***************************************************************************)
(* The rate-limit gate and MockRateLimiter.                                *)
(***************************************************************************)
\* shouldRateLimit without the test for plugin bundles
shouldRateLimitPackagesOnly(path) ==
    \/ endsWith(path, ".deb")
    \/ endsWith(path, ".rpm")
    \/ startsWith(path, "/api/")
    \/ path = "/latest.json"

shouldRateLimit(path) ==
    \/ endsWith(path, ".deb")
    \/ endsWith(path, ".rpm")
    \/ endsWith(path, ".tar.gz")
    \/ startsWith(path, "/api/")
    \/ path = "/latest.json"

rateLimitExceeded ==
    Response(
        JsonBody([ error |-> "Rate limit exceeded",
                   message |-> "Too many requests. Please try again later.",
                   retry_after |-> 60 ]),
        429,
        HeadersSet(HeadersSet(NoHeaders, "Content-Type", JsonContentType),
                   "Retry-After", "60"))

\* MockRateLimiter.limit({key}) at time t: the answer and the limits Map after it
limiterLimit(lims, key, t) ==
    IF key \notin DOMAIN lims \/ t >= lims[key].resetAt
    THEN [ success |-> TRUE,
           limits |-> (key :> [count |-> 1, resetAt |-> t + PeriodTicks]) @@ lims ]
    ELSE IF lims[key].count >= MaxRequests
    THEN [success |-> FALSE, limits |-> lims]
    ELSE [ success |-> TRUE,
           limits |-> [lims EXCEPT ![key].count = @ + 1] ]

\* MockRateLimiter.setExceeded(key) at time t
limiterSetExceeded(lims, key, t) ==
    (key :> [count |-> MaxRequests + 1, resetAt |-> t + PeriodTicks]) @@ lims

\* one key for every client
clientKeyShared(r) == "unknown"

\* req.headers.get('CF-Connecting-IP') || 'unknown'
clientKey(r) == IF r.ip # "" THEN r.ip ELSE "unknown"

(***************************************************************************)
(* JSON.parse on the documents the model stores and posts.  A text that is *)
(* no key of JsonDocuments is not JSON: parsing it throws a SyntaxError.   *)
(***************************************************************************)
ManifestP == "{\"name\":\"p\",\"version\":\"1.0\",\"description\":\"d\"}"

InstallOk == "{\"version\":\"1.0\",\"platform\":\"linux\",\"yams_version\":\"2\"}"

InstallNoPlatform == "{\"version\":\"1.0\",\"yams_version\":\"2\"}"

NotJson == "not json"

InstallEmptyVersion == "{\"version\":\"\",\"platform\":\"linux\",\"yams_version\":\"2\"}"

InvalidData == "{\"invalid\":\"data\"}"

\* the top-level manifest of plugin g, with a download count
ManifestG == "{\"name\":\"g\",\"version\":\"0.10.0\",\"description\":\"d\",\"downloads\":5}"

\* the manifest of one version of plugin g
ManifestOf(v) == "{\"name\":\"g\",\"version\":\"" \o v \o "\"}"

VersionNames == {"0.1.0", "0.9.0", "0.10.0", "versions", "latest", "install"}

EmptyObject == [f \in {} |-> ""]

JsonDocuments ==
    (ManifestP :> [name |-> "p", version |-> "1.0", description |-> "d"])
    @@ (InstallOk :> [version |-> "1.0", platform |-> "linux", yams_version |-> "2"])
    @@ (InstallNoPlatform :> [version |-> "1.0", yams_version |-> "2"])
    @@ ("{}" :> EmptyObject)
    @@ (InstallEmptyVersion :> [version |-> "", platform |-> "linux", yams_version |-> "2"])
    @@ (InvalidData :> [invalid |-> "data"])
    @@ (ManifestG :> [name |-> "g", version |-> "0.10.0", description |-> "d", downloads |-> 5])
    @@ [t \in {ManifestOf(v) : v \in VersionNames} |->
            [name |-> "g", version |-> CHOOSE v \in VersionNames : ManifestOf(v) = t]]

parses(text) == text \in DOMAIN JsonDocuments

jsonParse(text) == JsonDocuments[text]

SyntaxError == "SyntaxError: Unexpected token in JSON"

\* !value[field]: the property is missing or is the empty string
falsy(value, field) == field \notin DOMAIN value \/ value[field] = ""

(***************************************************************************)
(* The plugin registry API.                                                *)
(***************************************************************************)
\* CORS headers that name the origin only
addCorsOriginOnly(h) == HeadersSet(h, "Access-Control-Allow-Origin", "*")

addCorsHeaders(h) ==
    HeadersSet(
        HeadersSet(
            HeadersSet(h, "Access-Control-Allow-Origin", "*"),
            "Access-Control-Allow-Methods", "GET, POST, OPTIONS"),
        "Access-Control-Allow-Headers", "Content-Type")

jsonResponse(data, status, cacheMaxAge) ==
    Response(
        JsonBody(data),
        status,
        HeadersSet(
            HeadersSet(addCorsHeaders(addSecurityHeaders(NoHeaders)),
                       "Content-Type", JsonContentType),
            "Cache-Control", "public, max-age=" \o ToString(cacheMaxAge)))

\* the entry with downloads as the manifest has it, undefined when it has none
pluginEntryAsIs(manifest) ==
    [f \in ({"name", "version", "description", "downloads"} \cap DOMAIN manifest) |-> manifest[f]]

\* { name, version, description, downloads: manifest.downloads || 0 }
pluginEntry(manifest) ==
    [f \in (({"name", "version", "description"} \cap DOMAIN manifest) \cup {"downloads"}) |->
        IF f = "downloads"
        THEN IF "downloads" \in DOMAIN manifest THEN manifest.downloads ELSE 0
        ELSE manifest[f]]

\* the loop of handlePluginApiList over the prefixes still to visit
RECURSIVE listPlugins(_, _, _, _, _, _)
listPlugins(objs, fault, prefixes, plugins, calls, streams) ==
    IF prefixes = <<>>
    THEN Settled(jsonResponse([plugins |-> plugins], 200, 60), calls, streams)
    ELSE
        LET pluginName == replace(replace(Head(prefixes), "plugins/", ""), "/", "")
            manifestKey == "plugins/" \o pluginName \o "/manifest.json"
        IN  IF fault = "get"
            THEN Rejected(StoreError, calls \o <<Call("get", manifestKey, "threw")>>, streams)
            ELSE IF manifestKey \notin DOMAIN objs
            THEN listPlugins(objs, fault, Tail(prefixes), plugins,
                             calls \o <<Call("get", manifestKey, "miss")>>, streams)
            ELSE IF ~parses(objs[manifestKey].content)
            THEN Rejected(SyntaxError,
                          calls \o <<Call("get", manifestKey, "hit")>>,
                          streams \o <<[key |-> manifestKey, fate |-> "read"]>>)
            ELSE listPlugins(objs, fault, Tail(prefixes),
                             Append(plugins, pluginEntry(jsonParse(objs[manifestKey].content))),
                             calls \o <<Call("get", manifestKey, "hit")>>,
                             streams \o <<[key |-> manifestKey, fate |-> "read"]>>)

handlePluginApiList(objs, fault) ==
    IF fault = "list"
    THEN Rejected(StoreError, <<Call("list", "plugins/", "threw")>>, <<>>)
    ELSE listPlugins(objs, fault,
                     BucketList(objs, "plugins/", "/", DefaultListLimit).delimitedPrefixes,
                     <<>>, <<Call("list", "plugins/", "ok")>>, <<>>)

\* get the manifest at manifestKey and answer it, or answer 404 with missing
serveManifest(objs, fault, manifestKey, missing, cacheMaxAge) ==
    IF fault = "get"
    THEN Rejected(StoreError, <<Call("get", manifestKey, "threw")>>, <<>>)
    ELSE IF manifestKey \notin DOMAIN objs
    THEN Settled(jsonResponse([error |-> missing], 404, 300),
                 <<Call("get", manifestKey, "miss")>>, <<>>)
    ELSE IF ~parses(objs[manifestKey].content)
    THEN Rejected(SyntaxError, <<Call("get", manifestKey, "hit")>>,
                  <<[key |-> manifestKey, fate |-> "read"]>>)
    ELSE Settled(jsonResponse(jsonParse(objs[manifestKey].content), 200, cacheMaxAge),
                 <<Call("get", manifestKey, "hit")>>,
                 <<[key |-> manifestKey, fate |-> "read"]>>)

handlePluginApiGet(objs, fault, pluginName) ==
    serveManifest(objs, fault,
                  "plugins/" \o pluginName \o "/manifest.json",
                  "Plugin '" \o pluginName \o "' not found",
                  3600)

handlePluginApiVersion(objs, fault, pluginName, version) ==
    serveManifest(objs, fault,
                  "plugins/" \o pluginName \o "/" \o version \o "/manifest.json",
                  "Version '" \o version \o "' not found for plugin '" \o pluginName \o "'",
                  86400)

\* localeCompare with { numeric: true }: a run of digits weighs as the number it
\* writes, leading zeros ignored
Digits == "0123456789"

isDigit(c) == c # "" /\ includes(Digits, c)

RECURSIVE digitRun(_)
digitRun(s) == IF s # "" /\ isDigit(charAt(s, 0)) THEN 1 + digitRun(substring(s, 1)) ELSE 0

RECURSIVE toNumber(_)
toNumber(s) ==
    IF s = "" THEN 0
    ELSE 10 * toNumber(SubSeq(s, 1, Len(s) - 1)) + indexOf(Digits, charAt(s, Len(s) - 1))

RECURSIVE numericCompare(_, _)
numericCompare(a, b) ==
    IF a = "" THEN (IF b = "" THEN 0 ELSE -1)
    ELSE IF b = "" THEN 1
    ELSE IF isDigit(charAt(a, 0)) /\ isDigit(charAt(b, 0))
    THEN LET na == toNumber(SubSeq(a, 1, digitRun(a)))
             nb == toNumber(SubSeq(b, 1, digitRun(b)))
         IN  IF na < nb THEN -1
             ELSE IF na > nb THEN 1
             ELSE numericCompare(substring(a, digitRun(a)), substring(b, digitRun(b)))
    ELSE LET pa == Primary[charAt(a, 0)]
             pb == Primary[charAt(b, 0)]
         IN  IF pa < pb THEN -1
             ELSE IF pa > pb THEN 1
             ELSE numericCompare(substring(a, 1), substring(b, 1))

localeCompareNumeric(a, b) ==
    IF numericCompare(a, b) # 0 THEN numericCompare(a, b)
    ELSE IF Len(a) = Len(b) THEN caseCompare(a, b)
    ELSE 0

\* descending without { numeric: true }
byVersionPlain(a, b) == localeCompare(b, a) < 0

\* versions.sort((a, b) => b.localeCompare(a, undefined, { numeric: true }))
byVersionDescending(a, b) == localeCompareNumeric(b, a) < 0

\* prefix.match(/plugins\/[^/]+\/([^/]+)\//): the group captured by the leftmost
\* match, or Undefined when there is none
versionMatch(prefix) ==
    LET lead == "plugins/"
        capture(i) ==
            LET rest == substring(prefix, i + Len(lead))
                j == indexOf(rest, "/")
                rest2 == substring(rest, j + 1)
                k == indexOf(rest2, "/")
            IN  IF j > 0 /\ k > 0 THEN SubSeq(rest2, 1, k) ELSE Undefined
        hits == {i \in 0..(Len(prefix) - Len(lead)) :
                    /\ SubSeq(prefix, i + 1, i + Len(lead)) = lead
                    /\ capture(i) # Undefined}
    IN  IF hits = {} THEN Undefined ELSE capture(Min(hits))

\* the versions pushed by the loop over listing.delimitedPrefixes, in its order
RECURSIVE collectVersions(_)
collectVersions(prefixes) ==
    IF prefixes = <<>> THEN <<>>
    ELSE LET v == versionMatch(Head(prefixes))
         IN  IF v # Undefined /\ v # "manifest.json"
             THEN <<v>> \o collectVersions(Tail(prefixes))
             ELSE collectVersions(Tail(prefixes))

sortedVersions(objs, pluginName) ==
    SortSeq(
        collectVersions(
            BucketList(objs, "plugins/" \o pluginName \o "/", "/",
                       DefaultListLimit).delimitedPrefixes),
        byVersionDescending)

\* the answer of handlePluginApiVersions once the versions are sorted
versionsResponse(versions, pluginName) ==
    IF Len(versions) = 0
    THEN jsonResponse([error |-> "No versions found for plugin '" \o pluginName \o "'"],
                      404, 300)
    ELSE jsonResponse([versions |-> versions], 200, 300)

handlePluginApiVersions(objs, fault, pluginName) ==
    IF fault = "list"
    THEN Rejected(StoreError, <<Call("list", "plugins/" \o pluginName \o "/", "threw")>>, <<>>)
    ELSE Settled(versionsResponse(sortedVersions(objs, pluginName), pluginName),
                 <<Call("list", "plugins/" \o pluginName \o "/", "ok")>>, <<>>)

\* handlePluginApiLatest once the versions are sorted; listed is its list call
latestOf(objs, fault, pluginName, versions, listed) ==
    IF Len(versions) = 0
    THEN Settled(
            jsonResponse([error |-> "Plugin '" \o pluginName \o "' not found"], 404, 300),
            listed, <<>>)
    ELSE [handlePluginApiVersion(objs, fault, pluginName, versions[1])
            EXCEPT !.calls = listed \o @]

\* the latest taken as the first version in listing order, unsorted
handlePluginApiLatestListed(objs, fault, pluginName) ==
    latestOf(objs, fault, pluginName,
             collectVersions(
                BucketList(objs, "plugins/" \o pluginName \o "/", "/",
                           DefaultListLimit).delimitedPrefixes),
             <<Call("list", "plugins/" \o pluginName \o "/", "ok")>>)

handlePluginApiLatest(objs, fault, pluginName) ==
    IF fault = "list"
    THEN Rejected(StoreError, <<Call("list", "plugins/" \o pluginName \o "/", "threw")>>, <<>>)
    ELSE latestOf(objs, fault, pluginName, sortedVersions(objs, pluginName),
                  <<Call("list", "plugins/" \o pluginName \o "/", "ok")>>)

\* an install handler that requires the version only
handlePluginApiInstallVersionOnly(r) ==
    IF ~parses(r.body)
    THEN Settled(jsonResponse([error |-> "Invalid JSON body"], 400, 300), <<>>, <<>>)
    ELSE IF falsy(jsonParse(r.body), "version")
    THEN Settled(
            jsonResponse(
                [error |-> "Invalid request body. Required: version, platform, yams_version"],
                400, 300),
            <<>>, <<>>)
    ELSE Settled(jsonResponse([success |-> TRUE], 200, 0), <<>>, <<>>)

\* req.json() and the check of the three fields, inside the handler's own try
handlePluginApiInstall(r) ==
    IF ~parses(r.body)
    THEN Settled(jsonResponse([error |-> "Invalid JSON body"], 400, 300), <<>>, <<>>)
    ELSE IF \/ falsy(jsonParse(r.body), "version")
            \/ falsy(jsonParse(r.body), "platform")
            \/ falsy(jsonParse(r.body), "yams_version")
    THEN Settled(
            jsonResponse(
                [error |-> "Invalid request body. Required: version, platform, yams_version"],
                400, 300),
            <<>>, <<>>)
    ELSE Settled(jsonResponse([success |-> TRUE], 200, 0), <<>>, <<>>)

\* a dispatcher that tries the two-segment version lookup before the actions
handlePluginApiVersionFirst(objs, fault, r, pathParts) ==
    IF r.method = "OPTIONS"
    THEN Settled(
            Response(NullBody, 204,
                     HeadersSet(addCorsHeaders(NoHeaders), "Access-Control-Max-Age", "86400")),
            <<>>, <<>>)
    ELSE IF Len(pathParts) = 0 THEN handlePluginApiList(objs, fault)
    ELSE IF Len(pathParts) = 1 THEN handlePluginApiGet(objs, fault, pathParts[1])
    ELSE IF Len(pathParts) = 2 /\ ~(pathParts[2] = "install" /\ r.method = "POST")
    THEN handlePluginApiVersion(objs, fault, pathParts[1], pathParts[2])
    ELSE IF pathParts[2] = "versions" THEN handlePluginApiVersions(objs, fault, pathParts[1])
    ELSE IF pathParts[2] = "latest" THEN handlePluginApiLatest(objs, fault, pathParts[1])
    ELSE IF pathParts[2] = "install" /\ r.method = "POST" THEN handlePluginApiInstall(r)
    ELSE Settled(jsonResponse([error |-> "Unknown API endpoint"], 404, 300), <<>>, <<>>)

handlePluginApi(objs, fault, r, pathParts) ==
    IF r.method = "OPTIONS"
    THEN Settled(
            Response(NullBody, 204,
                     HeadersSet(addCorsHeaders(NoHeaders), "Access-Control-Max-Age", "86400")),
            <<>>, <<>>)
    ELSE IF Len(pathParts) = 0 THEN handlePluginApiList(objs, fault)
    ELSE IF Len(pathParts) = 1 THEN handlePluginApiGet(objs, fault, pathParts[1])
    ELSE IF pathParts[2] = "versions" THEN handlePluginApiVersions(objs, fault, pathParts[1])
    ELSE IF pathParts[2] = "latest" THEN handlePluginApiLatest(objs, fault, pathParts[1])
    ELSE IF pathParts[2] = "install" /\ r.method = "POST" THEN handlePluginApiInstall(r)
    ELSE IF Len(pathParts) = 2
    THEN handlePluginApiVersion(objs, fault, pathParts[1], pathParts[2])
    ELSE Settled(jsonResponse([error |-> "Unknown API endpoint"], 404, 300), <<>>, <<>>)

(***************************************************************************)
(* fetch: the rate-limit gate, then the router.                            *)
(***************************************************************************)
rootDescriptor ==
    Response(
        JsonBody([ service |-> "yams-repo",
                   endpoints |-> [ apt |-> "/aptrepo",
                                   yum |-> "/yumrepo",
                                   manifest |-> "/latest.json",
                                   gpg_key |-> "/gpg.key" ] ]),
        200,
        HeadersSet(NoHeaders, "Content-Type", JsonContentType))

internalError(err) ==
    Response(
        JsonBody([error |-> "Internal server error", message |-> err]),
        500,
        HeadersSet(NoHeaders, "Content-Type", JsonContentType))

\* path.replace('/api/v1/plugins', '').replace(/^\//, ''), then split('/')
apiPathParts(path) ==
    LET apiPath == normalizePath(replace(path, "/api/v1/plugins", ""))
    IN  IF Len(apiPath) > 0 THEN split(apiPath, "/") ELSE <<>>

\* the store key a path is served from: the route tests of fetch, in their order
\* ("" for the paths that are not served by the object server)
objectKey(path, cfg) ==
    IF path = "/" \/ path = "" THEN ""
    ELSE IF path = "/latest.json" THEN cfg.LATEST_MANIFEST
    ELSE IF path = "/gpg.key" THEN "gpg.key"
    ELSE IF startsWith(path, "/aptrepo")
    THEN normalizePath(replace(path, "/aptrepo", cfg.APT_PREFIX))
    ELSE IF startsWith(path, "/yumrepo")
    THEN normalizePath(replace(path, "/yumrepo", cfg.YUM_PREFIX))
    ELSE IF startsWith(path, "/api/v1/plugins") THEN ""
    ELSE IF startsWith(path, "/plugins") THEN normalizePath(path)
    ELSE ""

\* which handler the chain of route tests picks
routeOf(path) ==
    IF path = "/" \/ path = "" THEN "root"
    ELSE IF path = "/latest.json" THEN "object"
    ELSE IF path = "/gpg.key" THEN "object"
    ELSE IF startsWith(path, "/aptrepo") THEN "object"
    ELSE IF startsWith(path, "/yumrepo") THEN "object"
    ELSE IF startsWith(path, "/api/v1/plugins") THEN "api"
    ELSE IF startsWith(path, "/plugins") THEN "object"
    ELSE "unknown"

\* env holds the bindings: cfg, objs and the store call that throws (fault)
route(r, env) ==
    IF routeOf(r.path) = "root" THEN Settled(rootDescriptor, <<>>, <<>>)
    ELSE IF routeOf(r.path) = "object"
    THEN serveObjectOrDirectory(env.objs, env.fault, objectKey(r.path, env.cfg), r.path, r)
    ELSE IF routeOf(r.path) = "api"
    THEN handlePluginApi(env.objs, env.fault, r, apiPathParts(r.path))
    ELSE Settled(notFound("unknown route", r.cfRay), <<>>, <<>>)

\* A promise that leaves fetch's try block.  When it is awaited inside the block
\* its rejection is thrown there and the catch clause answers internalError;
\* when it is not, fetch's own promise adopts it after the block has been left
\* and a rejection of the promise is a rejection of fetch.
settleInTry(promise, awaited) ==
    IF awaited /\ promise.rejected
    THEN Settled(internalError(promise.error), promise.calls, promise.streams)
    ELSE promise

\* the handlers are async and fetch writes "return handler(...)", with no await
returnFromTry(promise) == settleInTry(promise, FALSE)

\* a gate that consults the limiter whatever the path
gateEveryPath(r, env) ==
    IF env.limiter = "absent" THEN "skipped"
    ELSE IF env.limiter = "throws" THEN "threw"
    ELSE IF limiterLimit(env.lims, clientKey(r), env.t).success THEN "allowed"
    ELSE "denied"

\* a gate that takes a limiter that throws for a denial
gateFailClosed(r, env) ==
    IF ~(shouldRateLimit(r.path) /\ env.limiter # "absent") THEN "skipped"
    ELSE IF env.limiter = "throws" THEN "denied"
    ELSE IF limiterLimit(env.lims, clientKey(r), env.t).success THEN "allowed"
    ELSE "denied"

\* the gate of fetch: "skipped" (the path is not rate limited, or no limiter is
\* bound), "threw", "denied" or "allowed".  env.limiter is "absent" (no
\* RATE_LIMITER binding), "bound", or "throws" (a binding whose limit() throws);
\* env.lims and env.t are the limiter's Map and clock.
gate(r, env) ==
    IF ~(shouldRateLimit(r.path) /\ env.limiter # "absent") THEN "skipped"
    ELSE IF env.limiter = "throws" THEN "threw"
    ELSE IF limiterLimit(env.lims, clientKey(r), env.t).success THEN "allowed"
    ELSE "denied"

\* the limiter's Map after the gate
limitsAfter(r, env, gated) ==
    IF gated \in {"allowed", "denied"}
    THEN limiterLimit(env.lims, clientKey(r), env.t).limits
    ELSE env.lims

\* the rest of fetch after the gate answered gated
afterGate(r, env, gated) ==
    IF gated = "denied"
    THEN Settled(rateLimitExceeded, <<Call("limit", clientKey(r), "denied")>>, <<>>)
    ELSE [returnFromTry(route(r, env)) EXCEPT
            !.calls = (IF gated = "skipped" THEN <<>>
                       ELSE <<Call("limit", clientKey(r), gated)>>) \o @]

\* fetch(req, env): what it settles to, and the limiter's Map afterwards
fetch(r, env) ==
    [out |-> afterGate(r, env, gate(r, env)), lims |-> limitsAfter(r, env, gate(r, env))]

(***************************************************************************)
(* The inputs: configurations, what is published to the bucket, requests.  *)
(***************************************************************************)
\* createMockEnv()
DefaultConfig ==
    [APT_PREFIX |-> "aptrepo", YUM_PREFIX |-> "yumrepo", LATEST_MANIFEST |-> "latest.json"]

Configs == {DefaultConfig}

Entry(key, content, etag) == [key |-> key, content |-> content, etag |-> etag]

\* what the publishing process may set: a key, its content and the entity tag the
\* store gives it ("" for a store that gives none)
StoreEntries ==
    { Entry("latest.json", "{}", "\"e1\""),
      Entry("latest.json", "{}", ""),
      Entry("latest.json", "[]", ""),
      Entry("latest.json", "null", ""),
      Entry("gpg.key", "KEY", "\"e2\""),
      Entry("latest.json/old", "{}", "\"e11\""),
      Entry("aptrepo/dists/Release", "Origin: yams", "\"e3\""),
      Entry("aptrepo/dists/", "", "\"e4\""),
      Entry("aptrepo/pool/a.deb", "debian", "\"e5\""),
      Entry("aptrepo-old/x", "old", "\"e6\""),
      Entry("yumrepo/b.rpm", "rpm", "\"e7\""),
      Entry("plugins/p/manifest.json", ManifestP, "\"e8\""),
      Entry("plugins/p/manifest.json", NotJson, "\"e8\""),
      Entry("plugins/p/1.0/manifest.json", ManifestP, "\"e9\""),
      Entry("plugins/p/1.0/p.tar.gz", "bundle", "\"e10\"") }

Paths ==
    { "/", "/latest.json", "/latest.json/", "/gpg.key",
      "/aptrepo", "/aptrepo/", "/aptrepo/dists", "/aptrepo/dists/",
      "/aptrepo/dists/Release", "/aptrepo/pool/a.deb", "/aptrepo-old/x",
      "/yumrepo/", "/yumrepo/b.rpm",
      "/plugins/p", "/plugins/p/1.0/p.tar.gz",
      "/api/v1/plugins", "/api/v1/plugins/p", "/api/v1/plugins/p/versions",
      "/api/v1/plugins/p/latest", "/api/v1/plugins/p/1.0", "/api/v1/plugins/p/install",
      "/api/v2/x", "/unknown/path", "/unknown/c.deb" }

ClientA == "192.168.4.1"

ClientB == "192.168.4.2"

Request(method, path, ip, ifNoneMatch, accept, cfRay, body) ==
    [ method |-> method, path |-> path, ip |-> ip, ifNoneMatch |-> ifNoneMatch,
      accept |-> accept, cfRay |-> cfRay, body |-> body ]

Get(path) == Request("GET", path, "", "", "", "", "")

\* GET with no header or with one of If-None-Match, Accept, CF-Ray; OPTIONS;
\* POST with a body
Requests ==
    {Get(p) : p \in Paths}
    \cup {[Get(p) EXCEPT !.ifNoneMatch = t] : p \in Paths, t \in {"\"e1\"", "\"e5\"", "W/\"2\""}}
    \cup {[Get(p) EXCEPT !.accept = "application/json"] : p \in Paths}
    \cup {[Get(p) EXCEPT !.cfRay = "test-ray-id"] : p \in Paths}
    \cup {[Get(p) EXCEPT !.method = "OPTIONS"] : p \in Paths}
    \cup {[Get(p) EXCEPT !.method = "POST", !.body = b] :
            p \in {"/api/v1/plugins/p/install", "/api/v1/plugins/p/1.0"},
            b \in {InstallOk, InstallNoPlatform, NotJson}}

\* a request and the conditions it meets: the limiter binding and the store call
\* that throws while it is handled
Input(r, limiter, fault) == [r |-> r, limiter |-> limiter, fault |-> fault]

\* no limiter bound; any request against a sound store, and the plain GETs
\* against a store whose get or list throws
Inputs ==
    {Input(r, "absent", "none") : r \in Requests}
    \cup {Input(Get(p), "absent", f) : p \in Paths, f \in {"get", "list"}}

\* requests from two addresses, or with no CF-Connecting-IP at all, with no
\* limiter bound, with one bound, or with one whose limit() throws
GateInputs ==
    {Input([Get(p) EXCEPT !.ip = a], m, "none") :
        p \in Paths, a \in {"", ClientA, ClientB}, m \in {"absent", "bound", "throws"}}
    \cup {Input([Get(p) EXCEPT !.ip = a, !.method = "OPTIONS"], m, "none") :
            p \in {q \in Paths : routeOf(q) = "api"},
            a \in {"", ClientA, ClientB}, m \in {"absent", "bound", "throws"}}

\* the bucket after set(key, content, etag) for each entry of S (one per key)
Published(S) ==
    [k \in {e.key : e \in S} |->
        [ content |-> (CHOOSE e \in S : e.key = k).content,
          httpEtag |-> (CHOOSE e \in S : e.key = k).etag ]]

\* the bucket the gate is exercised against
GateObjects ==
    Published({ Entry("latest.json", "{}", "\"e1\""),
                Entry("aptrepo/pool/a.deb", "debian", "\"e5\""),
                Entry("aptrepo/dists/Release", "Origin: yams", "\"e3\""),
                Entry("gpg.key", "KEY", "\"e2\""),
                Entry("plugins/p/manifest.json", ManifestP, "\"e8\""),
                Entry("plugins/p/1.0/manifest.json", ManifestP, "\"e9\"") })

\* a bucket to list: names with the characters HTML gives a meaning to, names
\* in both cases, with digits and punctuation, directories and files
ListEntries ==
    { Entry("aptrepo/<script>alert(1)</script>.txt", "x", "\"l1\""),
      Entry("aptrepo/a&b/it's", "x", "\"l2\""),
      Entry("aptrepo/q\"t", "x", "\"l3\""),
      Entry("aptrepo/B.txt", "xx", "\"l4\""),
      Entry("aptrepo/a.txt", "x", "\"l5\""),
      Entry("aptrepo/10", "x", "\"l6\""),
      Entry("aptrepo/Z/x", "x", "\"l7\""),
      Entry("aptrepo/b/y", "x", "\"l8\""),
      Entry("aptrepo/", "", "\"l9\"") }

\* url.pathname leaves & and ' as they are (and writes < > " as %3C %3E %22)
ListPaths == {"/aptrepo/", "/aptrepo/a&b/", "/aptrepo/Z/", "/aptrepo/b/"}

Accepts == {"", "application/json", "text/html", "text/html, application/json;q=0.9"}

ListInputs ==
    {Input([Get(p) EXCEPT !.accept = a], "absent", "none") : p \in ListPaths, a \in Accepts}

\* a plugin store: plugin g with a top-level manifest, versions with a manifest
\* (one of them named like an endpoint), a version without one and a
\* sub-prefix named manifest.json; plugin h with a version only; plugin p
ApiEntries ==
    { Entry("plugins/g/manifest.json", ManifestG, "\"g0\"") }
    \cup { Entry("plugins/g/" \o v \o "/manifest.json", ManifestOf(v), "\"gv\"") :
                v \in VersionNames }
    \cup { Entry("plugins/g/0.3.0/plugin.tar.gz", "tgz", "\"g3\""),
           Entry("plugins/g/manifest.json/x", "x", "\"gx\""),
           Entry("plugins/h/1.0/manifest.json", ManifestP, "\"h1\""),
           Entry("plugins/p/manifest.json", ManifestP, "\"p0\"") }

ApiPaths ==
    { "/api/v1/plugins", "/api/v1/plugins/",
      "/api/v1/plugins/g", "/api/v1/plugins/h", "/api/v1/plugins/p",
      "/api/v1/plugins/g/versions", "/api/v1/plugins/h/versions", "/api/v1/plugins/p/versions",
      "/api/v1/plugins/g/latest", "/api/v1/plugins/h/latest", "/api/v1/plugins/p/latest",
      "/api/v1/plugins/g/0.1.0", "/api/v1/plugins/g/0.9.0", "/api/v1/plugins/g/0.10.0",
      "/api/v1/plugins/g/0.3.0", "/api/v1/plugins/h/1.0",
      "/api/v1/plugins/g/install",
      "/api/v1/plugins/g/versions/extra", "/api/v1/plugins/g/latest/extra",
      "/api/v1/plugins/g/install/extra", "/api/v1/plugins/g/0.1.0/extra",
      "/api/v1/plugins/g/0.1.0/manifest.json/extra" }

InstallBodies == {InstallOk, InstallNoPlatform, InstallEmptyVersion, InvalidData, "{}", NotJson, ""}

\* GET on every API path, POST with a body on the install paths, a preflight
ApiInputs ==
    {Input(Get(p), "absent", "none") : p \in ApiPaths}
    \cup {Input([Get(p) EXCEPT !.method = "POST", !.body = b], "absent", "none") :
            p \in {"/api/v1/plugins/g/install", "/api/v1/plugins/g/install/extra"},
            b \in InstallBodies}
    \cup {Input([Get(p) EXCEPT !.method = m], "absent", "none") :
            p \in {"/api/v1/plugins/g/versions", "/api/v1/plugins/g/latest",
                   "/api/v1/plugins/g/install", "/api/v1/plugins/g/a/b"},
            m \in {"POST", "DELETE", "OPTIONS"}}

\* values the three configuration variables may be given: the documented
\* names, names with a leading '/', an empty prefix, a nested name
ConfigValues ==
    [ APT_PREFIX : {"aptrepo", "/aptrepo", "", "debian"},
      YUM_PREFIX : {"yumrepo", "/rpm"},
      LATEST_MANIFEST : {"latest.json", "/latest.json", "meta/latest.json"} ]

ConfigPaths ==
    { "/latest.json", "/gpg.key",
      "/aptrepo", "/aptrepo/", "/aptrepo/dists", "/aptrepo/dists/", "/aptrepo//x",
      "/aptrepo/pool/a.deb", "/yumrepo", "/yumrepo/", "/yumrepo/b.rpm",
      "/plugins/p", "/plugins/p/", "/api/v1/plugins", "/api/v1/plugins/p/latest" }

ConfigInputs == {Input(Get(p), "absent", "none") : p \in ConfigPaths}

\* keys of every suffix of the two tables, of none, and of suffixes on top of
\* one another, under the APT prefix
TypeStems == {"x", "dists/", "dists/In", "pool/a.tar", "x.json", "Packages"}

TypeSuffixes ==
    {TEXT_TYPES[i][1] : i \in 1..Len(TEXT_TYPES)}
        \cup {BINARY_TYPES[i][1] : i \in 1..Len(BINARY_TYPES)}
        \cup {"", "/", ".bin", ".JSON"}

TypeKeys == {"aptrepo/" \o stem \o suffix : stem \in TypeStems, suffix \in TypeSuffixes}

TypeInputs == {Input(Get("/" \o key), "absent", "none") : key \in TypeKeys}

NoRequest == Request("", "", "", "", "", "", "")

NoEnv == [limiter |-> "", fault |-> ""]

NoOutcome == Settled(NoResponse, <<>>, <<>>)

(***************************************************************************)
(* The state machine.  fetch is one action: the worker keeps nothing       *)
(* between requests, and all it reads is the bucket and the limiter.  The  *)
(* response is held until Respond hands it to the client; publishing to    *)
(* the bucket, the clock and the limiter's test helpers are the            *)
(* environment, which moves between requests.                              *)
(***************************************************************************)
Idle == req = NoRequest

\* the bindings a request handled now would see
EnvOf(limiter, fault) ==
    [ cfg |-> config, objs |-> objects, fault |-> fault,
      limiter |-> limiter, lims |-> limits, t |-> now ]

Init ==
    /\ objects = [k \in {} |-> ""]
    /\ limits = [k \in {} |-> ""]
    /\ now = 0
    /\ config \in Configs
    /\ req = NoRequest
    /\ renv = NoEnv
    /\ out = NoOutcome

\* MockR2Bucket.set(key, content, etag)
BucketSet(e) ==
    /\ Idle
    /\ e.key \in DOMAIN objects \/ Cardinality(DOMAIN objects) < MaxObjects
    /\ objects' = BucketPut(objects, e.key, e.content, e.etag)
    /\ UNCHANGED <<limits, now, config, req, renv, out>>

\* MockR2Bucket.clear()
BucketClear ==
    /\ Idle
    /\ objects' = [k \in {} |-> ""]
    /\ UNCHANGED <<limits, now, config, req, renv, out>>

\* Date.now() moves on
Tick ==
    /\ Idle
    /\ now < MaxNow
    /\ now' = now + 1
    /\ UNCHANGED <<objects, limits, config, req, renv, out>>

\* MockRateLimiter.setExceeded(key)
SetExceeded(key) ==
    /\ Idle
    /\ limits' = limiterSetExceeded(limits, key, now)
    /\ UNCHANGED <<objects, now, config, req, renv, out>>

\* MockRateLimiter.reset()
LimiterReset ==
    /\ Idle
    /\ limits' = [k \in {} |-> ""]
    /\ UNCHANGED <<objects, now, config, req, renv, out>>

\* worker.fetch(req, env, ctx), to the point where its promise settles
Fetch(i) ==
    /\ Idle
    /\ \E result \in {fetch(i.r, EnvOf(i.limiter, i.fault))} :
        /\ out' = result.out
        /\ limits' = result.lims
    /\ req' = i.r
    /\ renv' = [limiter |-> i.limiter, fault |-> i.fault]
    /\ UNCHANGED <<objects, now, config>>

\* the settled promise is handed to the client
Respond ==
    /\ ~Idle
    /\ req' = NoRequest
    /\ renv' = NoEnv
    /\ out' = NoOutcome
    /\ UNCHANGED <<objects, limits, now, config>>

\* the worker with no limiter bound, over a bucket that is published to
Next ==
    \/ \E e \in StoreEntries : BucketSet(e)
    \/ BucketClear
    \/ \E i \in Inputs : Fetch(i)
    \/ Respond

Spec == Init /\ [][Next]_vars

\* the worker behind a limiter, over a bucket that stays as it is
InitGate ==
    /\ objects = GateObjects
    /\ limits = [k \in {} |-> ""]
    /\ now = 0
    /\ config \in Configs
    /\ req = NoRequest
    /\ renv = NoEnv
    /\ out = NoOutcome

NextGate ==
    \/ Tick
    \/ \E a \in {ClientA, ClientB} : SetExceeded(a)
    \/ LimiterReset
    \/ \E i \in GateInputs : Fetch(i)
    \/ Respond

SpecGate == InitGate /\ [][NextGate]_vars

\* the worker listing the directories of a bucket that holds some of ListEntries
InitList ==
    /\ objects \in {Published(S) : S \in {T \in SUBSET ListEntries : Cardinality(T) <= MaxListed}}
    /\ limits = [k \in {} |-> ""]
    /\ now = 0
    /\ config \in Configs
    /\ req = NoRequest
    /\ renv = NoEnv
    /\ out = NoOutcome

NextList ==
    \/ \E i \in ListInputs : Fetch(i)
    \/ Respond

SpecList == InitList /\ [][NextList]_vars

(***************************************************************************)
(* The object server over a store that holds one object, of any key.       *)
(***************************************************************************)
InitTypes ==
    /\ objects \in {Published({Entry(key, "x", "\"t\"")}) : key \in TypeKeys}
    /\ limits = [k \in {} |-> ""]
    /\ now = 0
    /\ config = DefaultConfig
    /\ req = NoRequest
    /\ renv = NoEnv
    /\ out = NoOutcome

NextTypes ==
    \/ \E i \in TypeInputs : Fetch(i)
    \/ Respond

SpecTypes == InitTypes /\ [][NextTypes]_vars

(***************************************************************************)
(* Invocations of fetch in progress at once.  Each invocation has its own  *)
(* req, and is suspended at each await of a limiter or store call; the     *)
(* calls of the invocations interleave in any order.  The store is not     *)
(* written and the limiter's Map is held as it is, so that each key is     *)
(* given one answer.  Here req and out are indexed by invocation.          *)
(***************************************************************************)
Invocations == 1..MaxConcurrent

ConcurrentRequests ==
    { [Get("/aptrepo/pool/a.deb") EXCEPT !.ip = ClientA],
      [Get("/aptrepo/dists") EXCEPT !.ip = ClientB],
      [Get("/gpg.key") EXCEPT !.ifNoneMatch = "\"e2\""],
      Get("/aptrepo/"),
      Get("/api/v1/plugins") }

\* an invocation that awaits: the calls it has made so far
Suspended(calls) == [settled |-> FALSE, rejected |-> FALSE, res |-> NoResponse, calls |-> calls]

NotInvoked == Suspended(<<>>)

\* a module-level variable filled by the first invocation and read by the rest
memoisedRequest(reqs, id) == IF reqs[1] # NoRequest THEN reqs[1] ELSE reqs[id]

\* the req parameter of an invocation of fetch
invocationRequest(reqs, id) == reqs[id]

\* the run of the handler for invocation id, over the store and limiter as they are
handlerRun(id) == fetch(invocationRequest(req, id), EnvOf(renv.limiter, renv.fault)).out

InitConcurrent ==
    /\ objects = GateObjects
    /\ limits \in {[k \in {} |-> ""], limiterSetExceeded([k \in {} |-> ""], ClientA, 0)}
    /\ now = 0
    /\ config = DefaultConfig
    /\ req = [id \in Invocations |-> NoRequest]
    /\ renv \in {[limiter |-> m, fault |-> "none"] : m \in {"absent", "bound", "throws"}}
    /\ out = [id \in Invocations |-> NotInvoked]

\* the runtime invokes fetch(r, env, ctx)
Invoke(id, r) ==
    /\ req[id] = NoRequest
    /\ req' = [req EXCEPT ![id] = r]
    /\ out' = [out EXCEPT ![id] = NotInvoked]
    /\ UNCHANGED <<objects, limits, now, config, renv>>

\* an awaited limiter or store call of the invocation returns
Await(id) ==
    /\ req[id] # NoRequest
    /\ ~out[id].settled
    /\ \E run \in {handlerRun(id)} :
        /\ Len(out[id].calls) < Len(run.calls)
        /\ out' = [out EXCEPT ![id] = Suspended(Append(out[id].calls, run.calls[Len(out[id].calls) + 1]))]
    /\ UNCHANGED <<objects, limits, now, config, req, renv>>

\* the promise of the invocation settles
Settle(id) ==
    /\ req[id] # NoRequest
    /\ ~out[id].settled
    /\ \E run \in {handlerRun(id)} :
        /\ Len(out[id].calls) >= Len(run.calls)
        /\ out' = [out EXCEPT ![id] =
                    [settled |-> TRUE, rejected |-> run.rejected, res |-> run.res,
                     calls |-> out[id].calls]]
    /\ UNCHANGED <<objects, limits, now, config, req, renv>>

\* the response has been sent
Deliver(id) ==
    /\ out[id].settled
    /\ req' = [req EXCEPT ![id] = NoRequest]
    /\ out' = [out EXCEPT ![id] = NotInvoked]
    /\ UNCHANGED <<objects, limits, now, config, renv>>

NextConcurrent ==
    \/ \E id \in Invocations, r \in ConcurrentRequests : Invoke(id, r)
    \/ \E id \in Invocations : Await(id)
    \/ \E id \in Invocations : Settle(id)
    \/ \E id \in Invocations : Deliver(id)

SpecConcurrent == InitConcurrent /\ [][NextConcurrent]_vars

(***************************************************************************)
(* The worker under each configuration, over an empty and a filled store.  *)
(***************************************************************************)
InitConfig ==
    /\ objects \in {Published({}), GateObjects}
    /\ limits = [k \in {} |-> ""]
    /\ now = 0
    /\ config \in ConfigValues
    /\ req = NoRequest
    /\ renv = NoEnv
    /\ out = NoOutcome

NextConfig ==
    \/ \E i \in ConfigInputs : Fetch(i)
    \/ Respond

SpecConfig == InitConfig /\ [][NextConfig]_vars

(***************************************************************************)
(* The plugin API over a plugin store of up to MaxStored objects.          *)
(***************************************************************************)
InitApi ==
    /\ objects \in {Published(S) : S \in {T \in SUBSET ApiEntries : Cardinality(T) <= MaxStored}}
    /\ limits = [k \in {} |-> ""]
    /\ now = 0
    /\ config = DefaultConfig
    /\ req = NoRequest
    /\ renv = NoEnv
    /\ out = NoOutcome

NextApi ==
    \/ \E i \in ApiInputs : Fetch(i)
    \/ Respond

SpecApi == InitApi /\ [][NextApi]_vars

(***************************************************************************)
(* The properties checked.  A step is fetch handling a request when it      *)
(* leaves Idle; Fetched is then the input it handled.  StoreCalls are the   *)
(* get and list calls an outcome made.                                      *)
(***************************************************************************)
IsFetch == Idle /\ ~Idle'

Fetched == Input(req', renv'.limiter, renv'.fault)

StoreCalls(o) == {k \in 1..Len(o.calls) : o.calls[k].op \in {"get", "list"}}

LimiterCalls(o) == {k \in 1..Len(o.calls) : o.calls[k].op = "limit"}

\* the rate-limited set as the specification words it
RateLimitedSet(path) ==
    \/ endsWith(path, ".deb")
    \/ endsWith(path, ".rpm")
    \/ endsWith(path, ".tar.gz")
    \/ startsWith(path, "/api/")
    \/ path = "/latest.json"

\* what the same request gets with no limiter bound
Unlimited(r, fault) == fetch(r, EnvOf("absent", fault)).out

\* C1: a request for a path of the rate-limited set, with a limiter bound that
\* answers success=false for the client's key, is answered 429 with
\* Retry-After: 60 and the body {error: 'Rate limit exceeded', retry_after: 60,
\* ...}, and no store get or list is made for it.
C1_DeniedShortCircuits ==
    [][( /\ IsFetch
         /\ RateLimitedSet(Fetched.r.path)
         /\ Fetched.limiter = "bound"
         /\ ~limiterLimit(limits, clientKey(Fetched.r), now).success )
       => /\ ~out'.rejected
          /\ out'.res.status = 429
          /\ HeadersGet(out'.res.headers, "Retry-After") = "60"
          /\ out'.res.body.kind = "json"
          /\ out'.res.body.value.error = "Rate limit exceeded"
          /\ out'.res.body.value.retry_after = 60
          /\ StoreCalls(out') = {}]_vars

\* a bundle download by a client whose quota is spent was answered 429
C1_Witness ==
    /\ req.path = "/plugins/p/1.0/p.tar.gz"
    /\ renv.limiter = "bound"
    /\ out.res.status = 429
    /\ out.calls = <<Call("limit", clientKey(req), "denied")>>

\* the paths the specification names as exempt: the root, the GPG key, and on
\* the object server the metadata files and the listing paths
NamedExempt(path) ==
    \/ path \in {"/", "/gpg.key"}
    \/ /\ routeOf(path) = "object"
       /\ endsWith(path, "/") \/ endsWith(path, "Release")

\* C2: for a path outside the rate-limited set (the root, /gpg.key, metadata
\* files such as Release, and the listing paths ending in '/' are such paths)
\* the limiter is not consulted, its state is left as it was, and the outcome is
\* the one the request has with no limiter bound.
C2_ExemptPaths ==
    [][IsFetch =>
        /\ NamedExempt(Fetched.r.path) => ~RateLimitedSet(Fetched.r.path)
        /\ ~RateLimitedSet(Fetched.r.path)
           => /\ LimiterCalls(out') = {}
              /\ limits' = limits
              /\ out' = Unlimited(Fetched.r, Fetched.fault)]_vars

\* the key of /gpg.key was served to a client the limiter would have denied
C2_Witness ==
    /\ req.path = "/gpg.key"
    /\ renv.limiter = "bound"
    /\ ~limiterLimit(limits, clientKey(req), now).success
    /\ out.res.status = 200
    /\ out.calls = <<Call("get", "gpg.key", "hit")>>

\* C3: when the limiter throws for a rate-limited path the answer is not 429 but
\* the response the request has with no limiter bound; so is the answer when the
\* limiter allows; and a 429 is only ever the answer to a denial by a bound
\* limiter.
C3_FailOpen ==
    ~Idle =>
        /\ (renv.limiter \in {"throws", "bound"} /\ LimiterCalls(out) # {}
                /\ out.calls[1].result # "denied")
           => /\ out.res.status # 429
              /\ out.rejected = Unlimited(req, renv.fault).rejected
              /\ out.res = Unlimited(req, renv.fault).res
              /\ out.streams = Unlimited(req, renv.fault).streams
        /\ (renv.limiter = "throws" /\ RateLimitedSet(req.path))
           => out.calls[1] = Call("limit", clientKey(req), "threw")
        /\ out.res.status = 429
           => /\ renv.limiter = "bound"
              /\ out.calls = <<Call("limit", clientKey(req), "denied")>>

\* the manifest was served although the limiter threw
C3_Witness ==
    /\ req.path = "/latest.json"
    /\ renv.limiter = "throws"
    /\ out.calls = <<Call("limit", clientKey(req), "threw"), Call("get", "latest.json", "hit")>>
    /\ out.res.status = 200

\* the gate's answer to a request, were it handled with the limiter's Map lims
GateWith(r, lims) == gate(r, [EnvOf("bound", "none") EXCEPT !.lims = lims])

\* C4: the limiter is keyed by CF-Connecting-IP: nothing that client A does (a
\* request of A's, allowed or denied, or A's quota being spent) changes the
\* limiter's record of another address B or the gate's answer (allowed or
\* denied) to any request of B's.
C4_ClientIsolation ==
    [][\A a \in {ClientA, ClientB} :
        ( \/ IsFetch /\ Fetched.r.ip = a
          \/ limits' = limiterSetExceeded(limits, a, now) /\ limits' # limits )
        => \A b \in {ClientA, ClientB} \ {a} :
               /\ (b \in DOMAIN limits') = (b \in DOMAIN limits)
               /\ b \in DOMAIN limits => limits'[b] = limits[b]
               /\ \A p \in Paths :
                    GateWith([Get(p) EXCEPT !.ip = b], limits')
                        = GateWith([Get(p) EXCEPT !.ip = b], limits)]_vars

\* A was denied while B, who has made a request of its own, would be allowed
C4_Witness ==
    /\ req.ip = ClientA
    /\ out.res.status = 429
    /\ ClientB \in DOMAIN limits
    /\ GateWith([Get("/latest.json") EXCEPT !.ip = ClientB], limits) = "allowed"

\* a store call of the outcome threw, or a manifest it read is not JSON
Faulted(o) ==
    \/ \E k \in StoreCalls(o) : o.calls[k].result = "threw"
    \/ \E k \in 1..Len(o.streams) :
        /\ o.streams[k].fate = "read"
        /\ ~parses(objects[o.streams[k].key].content)

\* C5: when a store get or list throws, or a manifest is not JSON, in the object
\* server, the directory lister or the plugin API, fetch does not reject: it
\* answers 500 with the body {error: 'Internal server error', message: ...}.
C5_ErrorsAnswered500 ==
    (~Idle /\ Faulted(out))
    => /\ ~out.rejected
       /\ out.res.status = 500
       /\ out.res.body.kind = "json"
       /\ out.res.body.value.error = "Internal server error"
       /\ "message" \in DOMAIN out.res.body.value

\* the object a request is served from, when the object server finds one
ServedKey == objectKey(req.path, config)

ObjectHit ==
    /\ ~Idle
    /\ renv.fault = "none"
    /\ routeOf(req.path) = "object"
    /\ ~endsWith(req.path, "/")
    /\ ServedKey \in DOMAIN objects

\* C6: for an object that exists, a request whose If-None-Match is the object's
\* entity tag is answered 304 with no body and that tag as ETag; a request with
\* another If-None-Match, or with none, is answered 200 with the object's whole
\* content and the same ETag.
C6_ConditionalGet ==
    ObjectHit =>
        /\ ~out.rejected
        /\ HeadersGet(out.res.headers, "ETag") = entityTag(objects[ServedKey])
        /\ IF req.ifNoneMatch = entityTag(objects[ServedKey])
           THEN out.res.status = 304 /\ out.res.body = NullBody
           ELSE /\ out.res.status = 200
                /\ out.res.body = StreamBody(objects[ServedKey].content)

\* the manifest was not modified: 304 with the tag the client sent
C6_Witness ==
    /\ ObjectHit
    /\ req.ifNoneMatch # ""
    /\ out.res.status = 304
    /\ HeadersGet(out.res.headers, "ETag") = req.ifNoneMatch

ObjectMiss ==
    /\ ~Idle
    /\ renv.fault = "none"
    /\ routeOf(req.path) = "object"
    /\ ~endsWith(req.path, "/")
    /\ ServedKey \notin DOMAIN objects

\* some stored key lies under key + '/': it begins with it and goes on
HasChildren(key) ==
    \E k \in DOMAIN objects : startsWith(k, key \o "/") /\ Len(k) > Len(key) + 1

\* C7: for a path not ending in '/' that the object server finds no object for,
\* the answer is 301 with Location the path plus one '/' exactly when some
\* stored key lies under key + '/', and otherwise 404 with the body
\* {error: 'object not found'} and the request's CF-Ray as cfRay when it has one.
C7_MissOutcome ==
    ObjectMiss =>
        /\ ~out.rejected
        /\ IF HasChildren(ServedKey)
           THEN /\ out.res.status = 301
                /\ HeadersGet(out.res.headers, "Location") = req.path \o "/"
                /\ out.res.body = NullBody
           ELSE /\ out.res.status = 404
                /\ out.res.body =
                    JsonBody(IF req.cfRay = "" THEN [error |-> "object not found"]
                             ELSE [error |-> "object not found", cfRay |-> req.cfRay])

\* /aptrepo/dists has no object but has a child: redirected to /aptrepo/dists/
C7_Witness ==
    /\ ObjectMiss
    /\ req.path = "/aptrepo/dists"
    /\ out.res.status = 301
    /\ HeadersGet(out.res.headers, "Location") = "/aptrepo/dists/"

ListingRequest ==
    /\ ~Idle
    /\ renv.fault \in {"none", "get"}
    /\ routeOf(req.path) = "object"
    /\ endsWith(req.path, "/")

\* C8: a path ending in '/' that goes to the object server is a listing request:
\* no get is made for it, even when an object has exactly that key; the answer
\* is 404 {error: 'directory not found'} when the delimiter listing of the
\* prefix has no file and no sub-prefix, and a 200 listing otherwise.
C8_TrailingSlashLists ==
    ListingRequest =>
        /\ ~out.rejected
        /\ \A k \in 1..Len(out.calls) : out.calls[k].op # "get"
        /\ IF /\ BucketList(objects, ServedKey, "/", DefaultListLimit).objects = <<>>
              /\ BucketList(objects, ServedKey, "/", DefaultListLimit).delimitedPrefixes = <<>>
           THEN /\ out.res.status = 404
                /\ out.res.body = JsonBody([error |-> "directory not found"])
           ELSE /\ out.res.status = 200
                /\ out.res.body.kind \in {"json", "html"}

\* an object has the key aptrepo/dists/ itself, and /aptrepo/dists/ was listed
C8_Witness ==
    /\ ListingRequest
    /\ ServedKey = "aptrepo/dists/"
    /\ ServedKey \in DOMAIN objects
    /\ out.calls = <<Call("list", "aptrepo/dists/", "ok")>>
    /\ out.res.status = 200

\* the paths the routes are written for: the four exact paths, and the four
\* prefixes with what lies under them
RoutedPath(path) ==
    \/ path \in {"/", "", "/latest.json", "/gpg.key"}
    \/ \E p \in {"/aptrepo", "/yumrepo", "/plugins", "/api/v1/plugins"} :
        path = p \/ startsWith(path, p \o "/")

\* C9: a request for any other path is answered 404 with the body
\* {error: 'unknown route'}, with the request's CF-Ray as cfRay when it has one,
\* and no store call is made for it (the store being sound).
C9_CatchAll ==
    (~Idle /\ renv.fault = "none" /\ ~RoutedPath(req.path))
    => /\ ~out.rejected
       /\ out.res.status = 404
       /\ out.res.body =
            JsonBody(IF req.cfRay = "" THEN [error |-> "unknown route"]
                     ELSE [error |-> "unknown route", cfRay |-> req.cfRay])
       /\ StoreCalls(out) = {}

\* C10: every response but the raw error responses (the 404 of notFound, the 429
\* and the 500) carries the five security headers: the root descriptor, the 200
\* and 304 of an object, the 301 redirect, the listings, and every response of
\* the plugin API, the 204 to OPTIONS among them.
C10_SecurityHeadersEverywhere ==
    ( /\ ~Idle
      /\ ~out.rejected
      /\ out.res.status \notin {404, 429, 500} \/ routeOf(req.path) = "api" )
    => \A k \in 1..Len(SECURITY_HEADERS) :
        HeadersGet(out.res.headers, SECURITY_HEADERS[k][1]) = SECURITY_HEADERS[k][2]

\* the entities escapeHtml writes
Entities == {"&amp;", "&lt;", "&gt;", "&quot;", "&#039;"}

\* every & of s begins an entity
AmpersandsEscaped(s) ==
    \A i \in 1..Len(s) :
        SubSeq(s, i, i) = "&"
        => \E e \in Entities : i + Len(e) - 1 <= Len(s) /\ SubSeq(s, i, i + Len(e) - 1) = e

\* s holds none of & < > " ' raw
NoRawCharacter(s) ==
    /\ AmpersandsEscaped(s)
    /\ \A c \in {"<", ">", "\"", "'"} : ~includes(s, c)

\* C11: in an HTML listing the title, the heading, the breadcrumb labels and
\* link targets, and the entries' link texts and link targets hold none of
\* & < > " ' raw (the breadcrumb trail's own markup has no & and no '); a key
\* with <script> in its name is listed with &lt;script&gt;.
C11_HtmlEscaped ==
    (~Idle /\ out.res.body.kind = "html")
    => /\ NoRawCharacter(out.res.body.title)
       /\ NoRawCharacter(out.res.body.heading)
       /\ \A k \in 1..Len(out.res.body.rows) :
            /\ NoRawCharacter(out.res.body.rows[k].href)
            /\ NoRawCharacter(out.res.body.rows[k].text)
       /\ AmpersandsEscaped(out.res.body.breadcrumbs)
       /\ ~includes(out.res.body.breadcrumbs, "'")
       /\ ( /\ req.path = "/aptrepo/"
            /\ "aptrepo/<script>alert(1)</script>.txt" \in DOMAIN objects )
          => \E k \in 1..Len(out.res.body.rows) :
                includes(out.res.body.rows[k].text, "&lt;script&gt;")

\* C11 without the breadcrumb link targets
C11_EscapedButBreadcrumbTargets ==
    (~Idle /\ out.res.body.kind = "html")
    => /\ NoRawCharacter(out.res.body.title)
       /\ NoRawCharacter(out.res.body.heading)
       /\ \A k \in 1..Len(out.res.body.rows) :
            /\ NoRawCharacter(out.res.body.rows[k].href)
            /\ NoRawCharacter(out.res.body.rows[k].text)

\* a request for a listing that was answered with one
Listed ==
    /\ ~Idle
    /\ renv.fault = "none"
    /\ routeOf(req.path) = "object"
    /\ endsWith(req.path, "/")
    /\ out.res.status = 200

\* what is left of a key after the prefix
Remainder(k, prefix) == substring(k, Len(prefix))

\* the immediate children of a prefix: its sub-prefixes (named up to and with
\* the first '/') and its files
ChildDirs(prefix) ==
    { SubSeq(Remainder(k, prefix), 1, indexOf(Remainder(k, prefix), "/") + 1) :
        k \in {m \in DOMAIN objects :
                startsWith(m, prefix) /\ includes(Remainder(m, prefix), "/")} }

ChildFiles(prefix) ==
    { Remainder(k, prefix) :
        k \in {m \in DOMAIN objects :
                /\ startsWith(m, prefix)
                /\ Len(m) > Len(prefix)
                /\ ~includes(Remainder(m, prefix), "/")} }

localeLess(a, b) == localeCompare(a, b) < 0

\* the names a listing shows, in its order: the files array of the JSON, the
\* link texts of the HTML rows
ShownNames ==
    IF out.res.body.kind = "json" THEN out.res.body.value.files
    ELSE [k \in 1..Len(out.res.body.rows) |-> out.res.body.rows[k].text]

\* a name as the rendering in use writes it
Shown(name) == IF out.res.body.kind = "json" THEN name ELSE escapeHtml(name)

\* the directories in the order Less, then the files in the order Less
DirsThenFiles(dirs, files) ==
    [k \in 1..(Len(dirs) + Len(files)) |->
        Shown(IF k <= Len(dirs) THEN dirs[k] ELSE files[k - Len(dirs)])]

JsonListing ==
    fetch([req EXCEPT !.accept = "application/json"],
          EnvOf(renv.limiter, renv.fault)).out.res.body

\* its files array (none when the body is no JSON)
JsonFiles == IF JsonListing.kind = "json" THEN JsonListing.value.files ELSE <<>>

\* C13: a listing requested with an Accept header that contains
\* application/json is the JSON {path, files}, path being the display path, the
\* names of directories ending in '/' and the names of files not; requested with
\* another Accept header or none it is HTML with the heading 'Index of <path>'
\* and the same names in the same order.
C13_ContentNegotiation ==
    Listed =>
        IF includes(req.accept, "application/json")
        THEN /\ out.res.body.kind = "json"
             /\ HeadersGet(out.res.headers, "Content-Type") = "application/json; charset=utf-8"
             /\ DOMAIN out.res.body.value = {"path", "files"}
             /\ out.res.body.value.path = req.path
             /\ Len(out.res.body.value.files)
                    = Cardinality(ChildDirs(ServedKey)) + Cardinality(ChildFiles(ServedKey))
             /\ \A k \in 1..Len(out.res.body.value.files) :
                    /\ endsWith(out.res.body.value.files[k], "/")
                        <=> out.res.body.value.files[k] \in ChildDirs(ServedKey)
                    /\ ~endsWith(out.res.body.value.files[k], "/")
                        <=> out.res.body.value.files[k] \in ChildFiles(ServedKey)
        ELSE /\ out.res.body.kind = "html"
             /\ HeadersGet(out.res.headers, "Content-Type") = "text/html; charset=utf-8"
             /\ out.res.body.heading = "Index of " \o escapeHtml(req.path)
             /\ Len(out.res.body.rows) = Len(JsonFiles)
             /\ \A k \in 1..Len(JsonFiles) :
                    out.res.body.rows[k].text = escapeHtml(JsonFiles[k])

\* JSON for a client that accepts HTML and, second to it, JSON
C13_Witness ==
    /\ Listed
    /\ req.accept = "text/html, application/json;q=0.9"
    /\ out.res.body.kind = "json"
    /\ out.res.body.value = [path |-> "/aptrepo/", files |-> <<"Z/", "a.txt">>]

\* the same directory as HTML for a client that sends text/html
C13_WitnessHtml ==
    /\ Listed
    /\ req.accept = "text/html"
    /\ out.res.body.kind = "html"
    /\ out.res.body.heading = "Index of /aptrepo/"
    /\ Len(out.res.body.rows) = 2

ImmutableDirective == "public, max-age=31536000, immutable"

\* C14: an object served with 200 or 304 carries Cache-Control
\* 'public, max-age=31536000, immutable' exactly when its store key ends in
\* .deb or .rpm, and 'public, max-age=300' for every other key.
C14_CachePolicy ==
    ObjectHit =>
        /\ out.res.status \in {200, 304}
        /\ HeadersGet(out.res.headers, "Cache-Control") \in {ImmutableDirective, "public, max-age=300"}
        /\ HeadersGet(out.res.headers, "Cache-Control") = ImmutableDirective
            <=> (endsWith(ServedKey, ".deb") \/ endsWith(ServedKey, ".rpm"))

\* an RPM package served 200 with the immutable directive
C14_Witness ==
    /\ ObjectHit
    /\ ServedKey = "yumrepo/b.rpm"
    /\ out.res.status = 200
    /\ HeadersGet(out.res.headers, "Cache-Control") = ImmutableDirective

\* a Debian package not modified: 304 with the immutable directive
C14_Witness304 ==
    /\ ObjectHit
    /\ ServedKey = "aptrepo/pool/a.deb"
    /\ out.res.status = 304
    /\ HeadersGet(out.res.headers, "Cache-Control") = ImmutableDirective

\* the three CORS headers of the plugin API are in h
HasCors(h) ==
    /\ HeadersGet(h, "Access-Control-Allow-Origin") = "*"
    /\ HeadersGet(h, "Access-Control-Allow-Methods") = "GET, POST, OPTIONS"
    /\ HeadersGet(h, "Access-Control-Allow-Headers") = "Content-Type"

\* the preflight answer: 204, no body, the max-age, and no store call
PreflightAnswered ==
    /\ out.res.status = 204
    /\ out.res.body = NullBody
    /\ HeadersGet(out.res.headers, "Access-Control-Max-Age") = "86400"
    /\ StoreCalls(out) = {}

\* C15 (as amended): every response the plugin-API sub-router makes, that is
\* every response to a request under /api/v1/plugins that the rate-limit gate
\* has not answered 429, carries the three CORS headers whatever its status; an
\* OPTIONS request that passes the gate gets 204 with them and
\* Access-Control-Max-Age: 86400, and no store call is made for it.
C15_CorsFromSubRouter ==
    (~Idle /\ routeOf(req.path) = "api" /\ ~out.rejected /\ out.res.status # 429)
    => /\ HasCors(out.res.headers)
       /\ req.method = "OPTIONS" => PreflightAnswered

\* C15 as stated: every response to a request under /api/v1/plugins, whatever
\* its status
C15_CorsWhateverStatus ==
    (~Idle /\ routeOf(req.path) = "api" /\ ~out.rejected)
    => /\ HasCors(out.res.headers)
       /\ req.method = "OPTIONS" => PreflightAnswered

\* a preflight that the limiter allowed
C15_Witness ==
    /\ req.method = "OPTIONS"
    /\ req.path = "/api/v1/plugins/p/install"
    /\ renv.limiter = "bound"
    /\ out.calls = <<Call("limit", clientKey(req), "allowed")>>
    /\ out.res.status = 204
    /\ HasCors(out.res.headers)

PluginNames == {"g", "h", "p"}

\* a request to /api/v1/plugins/<name>/<action> has been answered
Asked(name, action) ==
    /\ ~Idle
    /\ req.method = "GET"
    /\ req.path = "/api/v1/plugins/" \o name \o "/" \o action
    /\ ~out.rejected

\* the names of the immediate sub-prefixes under plugins/<name>/
SubPrefixNames(name) ==
    { SubSeq(d, 1, Len(d) - 1) : d \in ChildDirs("plugins/" \o name \o "/") }

\* vs lists the set S, each member once
ListsEachOnce(vs, S) ==
    /\ Len(vs) = Cardinality(S)
    /\ {vs[k] : k \in 1..Len(vs)} = S

\* a and b are both in vs, and a comes first
Precedes(vs, a, b) ==
    \E i, j \in 1..Len(vs) : i < j /\ vs[i] = a /\ vs[j] = b

\* vs descends under the numeric-aware comparison; 0.10.0 is before 0.9.0 and
\* that before 0.1.0 where they occur
DescendsNumerically(vs) ==
    /\ \A i, j \in 1..Len(vs) : i < j => localeCompareNumeric(vs[i], vs[j]) > 0
    /\ \A a, b \in {"0.10.0", "0.9.0", "0.1.0"} :
            Precedes(vs, a, b) =>
                <<a, b>> \in {<<"0.10.0", "0.9.0">>, <<"0.10.0", "0.1.0">>, <<"0.9.0", "0.1.0">>}

\* /versions answers 404 when S is empty, and otherwise 200 with S listed once
\* each in descending numeric-aware order
AnswersVersions(S) ==
    IF S = {}
    THEN out.res.status = 404
    ELSE /\ out.res.status = 200
         /\ out.res.body.kind = "json"
         /\ DOMAIN out.res.body.value = {"versions"}
         /\ ListsEachOnce(out.res.body.value.versions, S)
         /\ DescendsNumerically(out.res.body.value.versions)

\* C16 (as amended): GET /api/v1/plugins/<name>/versions returns exactly the
\* names of the immediate sub-prefixes under plugins/<name>/ other than one
\* named manifest.json, each once, sorted descending under numeric-aware
\* comparison (0.10.0 before 0.9.0 before 0.1.0); it returns 404 if and only if
\* that set is empty.
C16_VersionListing ==
    \A name \in PluginNames :
        Asked(name, "versions") => AnswersVersions(SubPrefixNames(name) \ {"manifest.json"})

\* C16 as stated: the names of all the immediate sub-prefixes
C16_AllSubPrefixes ==
    \A name \in PluginNames :
        Asked(name, "versions") => AnswersVersions(SubPrefixNames(name))

\* three versions of g are stored and listed, 0.10.0 first
C16_Witness ==
    /\ Asked("g", "versions")
    /\ SubPrefixNames("g") = {"0.1.0", "0.9.0", "0.10.0"}
    /\ out.res.status = 200
    /\ out.res.body.value.versions = <<"0.10.0", "0.9.0", "0.1.0">>

\* no version of p is stored: 404
C16_WitnessNone ==
    /\ Asked("p", "versions")
    /\ "plugins/p/manifest.json" \in DOMAIN objects
    /\ SubPrefixNames("p") = {}
    /\ out.res.status = 404

\* the response to GET /api/v1/plugins/<name>/<segment> on the store as it is
ResponseTo(name, segment) ==
    fetch(Get("/api/v1/plugins/" \o name \o "/" \o segment), EnvOf("absent", "none")).out.res

\* the first element of the list /versions returns (it returns one)
FirstVersion(name) == ResponseTo(name, "versions").body.value.versions[1]

\* the version sub-prefixes of a plugin
VersionPrefixes(name) == SubPrefixNames(name) \ {"manifest.json"}

\* C17 (as amended): whenever plugins/<name>/ has at least one version
\* sub-prefix, the response to /api/v1/plugins/<name>/latest (status, body and
\* headers) is the version-metadata response for <v>, the first element of the
\* list returned by /versions, and so equals the response to
\* /api/v1/plugins/<name>/<v> unless <v> is the word versions, which the
\* dispatcher reads as the listing endpoint; with no version sub-prefix the
\* response is 404.
C17_LatestIsFirstVersion ==
    \A name \in PluginNames :
        Asked(name, "latest") =>
            IF VersionPrefixes(name) = {}
            THEN out.res.status = 404
            ELSE /\ out.res = handlePluginApiVersion(objects, "none", name, FirstVersion(name)).res
                 /\ FirstVersion(name) # "versions" =>
                        out.res = ResponseTo(name, FirstVersion(name))

\* C17 as stated: the response to /latest equals the response to /<v> whatever
\* <v> is
C17_LatestEqualsPathOfFirst ==
    \A name \in PluginNames :
        Asked(name, "latest") =>
            IF VersionPrefixes(name) = {}
            THEN out.res.status = 404
            ELSE out.res = ResponseTo(name, FirstVersion(name))

\* /latest on a store with two numbered versions answers the higher one's
\* manifest, which is not the first in listing order
C17_Witness ==
    /\ Asked("g", "latest")
    /\ VersionPrefixes("g") = {"0.9.0", "0.10.0"}
    /\ out.res.status = 200
    /\ out.res.body = JsonBody([name |-> "g", version |-> "0.10.0"])
    /\ HeadersGet(out.res.headers, "Cache-Control") = "public, max-age=86400"

\* the first version has no manifest: /latest is the version handler's 404
C17_WitnessNoManifest ==
    /\ Asked("g", "latest")
    /\ VersionPrefixes("g") = {"0.3.0", "0.1.0"}
    /\ out.res.status = 404
    /\ out.res.body = JsonBody([error |-> "Version '0.3.0' not found for plugin 'g'"])

\* a POST to /api/v1/plugins/g/install has been answered
InstallPosted ==
    /\ ~Idle
    /\ req.method = "POST"
    /\ req.path = "/api/v1/plugins/g/install"
    /\ ~out.rejected

\* the posted body is JSON with version, platform and yams_version non-empty
InstallComplete ==
    /\ req.body \in DOMAIN JsonDocuments
    /\ \A f \in {"version", "platform", "yams_version"} :
            f \in DOMAIN JsonDocuments[req.body] /\ JsonDocuments[req.body][f] # ""

RequiredFieldsError ==
    JsonBody([error |-> "Invalid request body. Required: version, platform, yams_version"])

InstallAccepted == out.res.status = 200 /\ out.res.body = JsonBody([success |-> TRUE])

\* C18 (as amended): a POST to /api/v1/plugins/<name>/install returns 200
\* {success: true} if and only if the body parses as JSON and version, platform
\* and yams_version are all present and non-empty; when the body parses and a
\* field is missing or empty it returns 400 with the error 'Invalid request
\* body. Required: version, platform, yams_version'; when the body does not
\* parse it returns 400 with the error 'Invalid JSON body'.
C18_InstallValidation ==
    InstallPosted =>
        /\ InstallAccepted <=> InstallComplete
        /\ ~InstallComplete =>
                /\ out.res.status = 400
                /\ out.res.body = IF req.body \in DOMAIN JsonDocuments
                                  THEN RequiredFieldsError
                                  ELSE JsonBody([error |-> "Invalid JSON body"])

\* C18 as stated: one 400 body for every rejected install
C18_OneErrorBody ==
    InstallPosted =>
        /\ InstallAccepted <=> InstallComplete
        /\ ~InstallComplete => (out.res.status = 400 /\ out.res.body = RequiredFieldsError)

\* an install with no platform is refused
C18_Witness ==
    /\ InstallPosted
    /\ req.body = InstallNoPlatform
    /\ out.res.status = 400
    /\ out.res.body = RequiredFieldsError

\* a complete install is accepted
C18_WitnessAccepted ==
    /\ InstallPosted
    /\ req.body = InstallOk
    /\ InstallAccepted

\* a request under /api/v1/plugins, not a preflight, has been answered
Dispatched ==
    /\ ~Idle
    /\ startsWith(req.path, "/api/v1/plugins")
    /\ req.method # "OPTIONS"
    /\ ~out.rejected

\* the path segments after /api/v1/plugins
Segments == apiPathParts(req.path)

UnknownEndpoint ==
    /\ out.res.status = 404
    /\ out.res.body = JsonBody([error |-> "Unknown API endpoint"])

\* C19: a non-OPTIONS request under /api/v1/plugins whose remaining segments
\* are none of (none), [name], [name, versions], [name, latest],
\* [name, version], POST [name, install] gets 404 {error: 'Unknown API
\* endpoint'}: the listed shapes are all those of at most two segments, so every
\* remaining path of three or more segments gets that 404.
C19_DispatchExact ==
    (Dispatched /\ Len(Segments) >= 3) => UnknownEndpoint

\* what the dispatcher does with three or more segments: 404 unless the second
\* is versions or latest, or is install on a POST
C19_DispatchBySecondSegment ==
    (Dispatched /\ Len(Segments) >= 3)
    => (UnknownEndpoint <=>
            ~ \/ Segments[2] \in {"versions", "latest"}
              \/ Segments[2] = "install" /\ req.method = "POST")

\* GET /api/v1/plugins has been answered
PluginsListed ==
    /\ ~Idle
    /\ req.method = "GET"
    /\ req.path \in {"/api/v1/plugins", "/api/v1/plugins/"}
    /\ ~out.rejected

\* the immediate sub-prefixes of plugins/ in listing order, by plugin name
PluginsInListingOrder == <<"g", "h", "p">>

HasManifest(name) == ("plugins/" \o name \o "/manifest.json") \in DOMAIN objects

\* the entry the list shows for a plugin, read off its top-level manifest
EntryOf(name) ==
    LET manifest == JsonDocuments[objects["plugins/" \o name \o "/manifest.json"].content]
    IN  [ name |-> manifest.name,
          version |-> manifest.version,
          description |-> manifest.description,
          downloads |-> IF "downloads" \in DOMAIN manifest THEN manifest.downloads ELSE 0 ]

RECURSIVE EntriesOf(_)
EntriesOf(names) ==
    IF names = <<>> THEN <<>>
    ELSE IF HasManifest(Head(names))
    THEN <<EntryOf(Head(names))>> \o EntriesOf(Tail(names))
    ELSE EntriesOf(Tail(names))

\* C20: GET /api/v1/plugins returns 200 with a plugins array that has exactly
\* one entry {name, version, description, downloads} for each immediate
\* sub-prefix of plugins/ that has a top-level manifest.json, in listing order,
\* with downloads defaulting to 0; sub-prefixes without a manifest are omitted
\* and cause no error, and an empty store yields an empty array.
C20_PluginList ==
    PluginsListed =>
        /\ {SubSeq(d, 1, Len(d) - 1) : d \in ChildDirs("plugins/")}
                \subseteq {PluginsInListingOrder[k] : k \in 1..3}
        /\ out.res.status = 200
        /\ out.res.body = JsonBody([plugins |-> EntriesOf(PluginsInListingOrder)])
        /\ objects = << >> => out.res.body.value.plugins = <<>>

\* g (5 downloads) and p (none recorded) are listed in that order, h, which has
\* no top-level manifest, is left out
C20_Witness ==
    /\ PluginsListed
    /\ ChildDirs("plugins/") = {"g/", "h/", "p/"}
    /\ out.res.status = 200
    /\ out.res.body.value.plugins =
            << [name |-> "g", version |-> "0.10.0", description |-> "d", downloads |-> 5],
               [name |-> "p", version |-> "1.0", description |-> "d", downloads |-> 0] >>

\* the empty store lists no plugin
C20_WitnessEmpty ==
    /\ PluginsListed
    /\ DOMAIN objects = {}
    /\ out.res.status = 200
    /\ out.res.body = JsonBody([plugins |-> <<>>])

\* the entries of the two type tables, as a set
TypeEntries ==
    {TEXT_TYPES[i] : i \in 1..Len(TEXT_TYPES)} \cup {BINARY_TYPES[i] : i \in 1..Len(BINARY_TYPES)}

\* the type-table entry for the key's suffix, application/octet-stream when no
\* entry matches
TableType(key) ==
    LET hits == {e \in TypeEntries : endsWith(key, e[1])}
    IN  IF hits = {} THEN "application/octet-stream" ELSE (CHOOSE e \in hits : TRUE)[2]

\* the object written at key has been fetched by the path that corresponds to it
FetchedBack(key) ==
    /\ ~Idle
    /\ renv.fault = "none"
    /\ req.method = "GET"
    /\ req.ifNoneMatch = ""
    /\ req.path = "/" \o key
    /\ routeOf(req.path) = "object"

\* 200, the written bytes, the table's type
ReturnsWritten(key) ==
    /\ ~out.rejected
    /\ out.res.status = 200
    /\ out.res.body = StreamBody(objects[key].content)
    /\ HeadersGet(out.res.headers, "Content-Type") = TableType(key)

\* C21 (as amended): for every key that does not end in '/' and content written
\* to the store, fetching the corresponding path through the object server
\* returns 200 with a body identical to the written bytes and a Content-Type
\* equal to the type-table entry for the key's suffix (application/octet-stream
\* when no entry matches).
C21_RoundTrip ==
    \A key \in DOMAIN objects :
        (FetchedBack(key) /\ ~endsWith(key, "/")) => ReturnsWritten(key)

\* C21 as stated: for every key
C21_RoundTripEveryKey ==
    \A key \in DOMAIN objects : FetchedBack(key) => ReturnsWritten(key)

\* Release, a key with an entry that is no extension, comes back as text/plain
C21_Witness ==
    /\ FetchedBack("aptrepo/dists/Release")
    /\ "aptrepo/dists/Release" \in DOMAIN objects
    /\ out.res.status = 200
    /\ out.res.body = StreamBody("Origin: yams")
    /\ HeadersGet(out.res.headers, "Content-Type") = "text/plain; charset=utf-8"

\* a key with no entry comes back as application/octet-stream
C21_WitnessOctetStream ==
    /\ FetchedBack("aptrepo-old/x")
    /\ "aptrepo-old/x" \in DOMAIN objects
    /\ out.res.body = StreamBody("old")
    /\ HeadersGet(out.res.headers, "Content-Type") = "application/octet-stream"

\* no get or list of the request handled used a key that begins with '/'
NoLeadingSlash ==
    \A k \in StoreCalls(out) : ~startsWith(out.calls[k].arg, "/")

\* C22: no store call (get, or list prefix) made while handling any request
\* uses a key that begins with '/', for every request path and every value of
\* the configured APT prefix, YUM prefix and manifest key.
C22_KeysNeverBeginWithSlash == ~Idle => NoLeadingSlash

\* with prefixes and a manifest key that hold no leading '/' and are not empty
C22_KeysOfSlashFreeConfig ==
    (/\ ~Idle
     /\ \A f \in DOMAIN config : config[f] # "" /\ ~startsWith(config[f], "/"))
    => NoLeadingSlash

\* every key read or listed for the request is the prefix or lies in prefix/
Confined(prefix) ==
    \A k \in StoreCalls(out) :
        out.calls[k].arg = prefix \/ startsWith(out.calls[k].arg, prefix \o "/")

\* the request was handled by the route that tests path.startsWith(mount)
HandledBy(mount) == ~Idle /\ renv.fault = "none" /\ startsWith(req.path, mount)

\* C23: every store key read or listed for a request handled by the /aptrepo
\* route is the APT prefix itself or lies inside '<prefix>/', and likewise for
\* /yumrepo and the YUM prefix: no request on these routes reads an object
\* outside that tree.
C23_PrefixConfinement ==
    /\ HandledBy("/aptrepo") => Confined(config.APT_PREFIX)
    /\ HandledBy("/yumrepo") => Confined(config.YUM_PREFIX)

\* a path that is the mount point, or goes on with '/', stays in the tree
C23_ConfinedUnderMount ==
    \A mount \in {"/aptrepo", "/yumrepo"} :
        (HandledBy(mount) /\ (req.path = mount \/ startsWith(req.path, mount \o "/")))
        => Confined(substring(mount, 1))

\* the object was found and the request answered 304
NotModified == ObjectHit /\ ~out.rejected /\ out.res.status = 304

\* the headers of the 200 the same request gets without its If-None-Match
HeadersOf200 ==
    fetch([req EXCEPT !.ifNoneMatch = ""], EnvOf(renv.limiter, renv.fault)).out.res.headers

\* h and g agree on the headers named
AgreeOn(h, g, names) ==
    \A n \in names : n \in DOMAIN h /\ n \in DOMAIN g /\ h[n] = g[n]

SecurityHeaderNames == {SECURITY_HEADERS[i][1] : i \in 1..Len(SECURITY_HEADERS)}

\* C24: a 304 response from the object server carries the same header set as
\* the corresponding 200 response (security headers, Cache-Control, ETag) but no
\* Content-Type and no Content-Length header.
C24_NotModifiedHeaders ==
    NotModified =>
        /\ AgreeOn(out.res.headers, HeadersOf200,
                   SecurityHeaderNames \cup {"Cache-Control", "ETag"})
        /\ "Content-Type" \notin DOMAIN out.res.headers
        /\ "Content-Length" \notin DOMAIN out.res.headers

\* what the 304 carries: the headers of the 200, every one of them
C24_NotModifiedHeadersAsFor200 ==
    NotModified =>
        /\ out.res.headers = HeadersOf200
        /\ DOMAIN out.res.headers =
                SecurityHeaderNames
                    \cup {"Cache-Control", "ETag", "Content-Type", "Content-Length"}

\* a request has been handled by the object server
ObjectServed == ~Idle /\ routeOf(req.path) = "object"

\* the gets of the request that returned an object, by key
BodiesObtained ==
    [k \in {j \in 1..Len(out.calls) :
                out.calls[j].op = "get" /\ out.calls[j].result = "hit"} |-> out.calls[k].arg]

\* C25: every object body the object server obtains from the store ends the
\* request either handed to the 200 response as its body or explicitly
\* cancelled (the 304 case); no opened body is left neither streamed nor
\* released.
C25_NoBodyLeak ==
    ObjectServed =>
        /\ Len(out.streams) = Cardinality(DOMAIN BodiesObtained)
        /\ \A k \in DOMAIN BodiesObtained :
                \E n \in 1..Len(out.streams) : out.streams[n].key = BodiesObtained[k]
        /\ \A n \in 1..Len(out.streams) :
                \/ /\ out.streams[n].fate = "streamed"
                   /\ out.res.status = 200
                   /\ out.res.body = StreamBody(objects[out.streams[n].key].content)
                \/ /\ out.streams[n].fate = "cancelled"
                   /\ out.res.status = 304
                   /\ out.res.body = NullBody

\* a body obtained and cancelled for a 304
C25_Witness ==
    /\ ObjectServed
    /\ out.res.status = 304
    /\ out.calls = <<Call("get", "aptrepo/pool/a.deb", "hit")>>
    /\ out.streams = <<[key |-> "aptrepo/pool/a.deb", fate |-> "cancelled"]>>

\* the weak tag of an object of n bytes
WeakTag(n) == "W/\"" \o ToString(n) \o "\""

\* contents latest.json may have had before it was replaced
EarlierContents == {"{}", "[]", "null"}

\* the object served has no tag from the store, and the request carries the tag
\* obtained while its content was earlier
CarriesTagOf(earlier) ==
    /\ ObjectHit
    /\ ~out.rejected
    /\ objects[ServedKey].httpEtag = ""
    /\ objects[ServedKey].content # earlier
    /\ req.ifNoneMatch = WeakTag(Len(earlier))

\* the response to a GET of /latest.json from the bucket objs, with the
\* If-None-Match given
ManifestResponse(objs, ifNoneMatch) ==
    fetch([Get("/latest.json") EXCEPT !.ifNoneMatch = ifNoneMatch],
          [EnvOf("absent", "none") EXCEPT !.objs = objs]).out.res

\* this step replaces the content of latest.json, the store giving no tag
\* before or after
Replaced ==
    /\ "latest.json" \in DOMAIN objects
    /\ "latest.json" \in DOMAIN objects'
    /\ objects["latest.json"].httpEtag = ""
    /\ objects'["latest.json"].httpEtag = ""
    /\ objects'["latest.json"].content # objects["latest.json"].content

\* the tag a client obtained before the replacement
TagBefore == HeadersGet(ManifestResponse(objects, "").headers, "ETag")

\* C26: when the store supplies no entity tag the object server uses the weak
\* tag W/"<size>"; so after the content is replaced by different content of the
\* same size a conditional GET carrying the tag obtained before is answered
\* 304, while after a replacement that changes the size it is answered 200.
C26_SizeDerivedTag ==
    [][Replaced =>
        /\ TagBefore = WeakTag(Len(objects["latest.json"].content))
        /\ IF Len(objects'["latest.json"].content) = Len(objects["latest.json"].content)
           THEN ManifestResponse(objects', TagBefore).status = 304
           ELSE /\ ManifestResponse(objects', TagBefore).status = 200
                /\ ManifestResponse(objects', TagBefore).body
                        = StreamBody(objects'["latest.json"].content)]_vars

\* the same in every state: a request carrying the tag of an earlier content
C26_EarlierTagAnswered ==
    \A earlier \in EarlierContents :
        CarriesTagOf(earlier) =>
            IF Len(earlier) = Len(objects[ServedKey].content)
            THEN out.res.status = 304 /\ out.res.body = NullBody
            ELSE /\ out.res.status = 200
                 /\ out.res.body = StreamBody(objects[ServedKey].content)

\* {} was replaced by [] : the old tag W/"2" still gets 304
C26_Witness ==
    /\ CarriesTagOf("{}")
    /\ objects[ServedKey].content = "[]"
    /\ req.ifNoneMatch = "W/\"2\""
    /\ out.res.status = 304

\* {} was replaced by null: the old tag gets 200 and the new content
C26_WitnessResized ==
    /\ CarriesTagOf("{}")
    /\ objects[ServedKey].content = "null"
    /\ out.res.status = 200
    /\ HeadersGet(out.res.headers, "ETag") = "W/\"4\""

\* the entries of a table in the opposite order
Reversed(table) == [i \in 1..Len(table) |-> table[Len(table) + 1 - i]]

\* the types of the entries whose suffix the key ends with
MatchingTypes(key) == {e[2] : e \in {f \in TypeEntries : endsWith(key, f[1])}}

\* the lookup with each table reversed, and with the binary table asked first
ResolvedOtherwise(key) ==
    { guessFrom(firstMatch(Reversed(TEXT_TYPES), key), firstMatch(Reversed(BINARY_TYPES), key), key),
      guessFrom(firstMatch(BINARY_TYPES, key), firstMatch(TEXT_TYPES, key), key),
      guessFrom(firstMatch(Reversed(BINARY_TYPES), key), firstMatch(Reversed(TEXT_TYPES), key), key) }

\* C27: for every key, all entries of the text and binary tables whose suffix
\* the key ends with map to the same MIME type, so permuting a table or asking
\* the binary table first never changes the resolved type; a key matching no
\* entry resolves to text/plain if it ends in '/' and otherwise to the sentinel
\* that callers replace by application/octet-stream.
C27_TableOrderIrrelevant ==
    \A key \in DOMAIN objects :
        /\ Cardinality(MatchingTypes(key)) <= 1
        /\ ResolvedOtherwise(key) = {guessContentType(key)}
        /\ MatchingTypes(key) # {} => MatchingTypes(key) = {guessContentType(key)}
        /\ MatchingTypes(key) = {} =>
                guessContentType(key) =
                    IF endsWith(key, "/") THEN "text/plain; charset=utf-8" ELSE Undefined
        /\ (FetchedBack(key) /\ ~endsWith(key, "/")) =>
                HeadersGet(out.res.headers, "Content-Type") =
                    IF MatchingTypes(key) = {} THEN "application/octet-stream"
                    ELSE guessContentType(key)

\* InRelease ends with two entries of the text table, both text/plain
C27_Witness ==
    /\ FetchedBack("aptrepo/dists/InRelease")
    /\ DOMAIN objects = {"aptrepo/dists/InRelease"}
    /\ Cardinality({e \in TypeEntries : endsWith("aptrepo/dists/InRelease", e[1])}) = 2
    /\ out.res.status = 200
    /\ HeadersGet(out.res.headers, "Content-Type") = "text/plain; charset=utf-8"

\* a key with no entry is served as application/octet-stream
C27_WitnessNoEntry ==
    /\ FetchedBack("aptrepo/x.json.bin")
    /\ DOMAIN objects = {"aptrepo/x.json.bin"}
    /\ out.res.status = 200
    /\ HeadersGet(out.res.headers, "Content-Type") = "application/octet-stream"

\* the outcome of the request of invocation id when it is handled alone
HandledAlone(id) == fetch(req[id], EnvOf(renv.limiter, renv.fault)).out

Redirected == ~Idle /\ renv.fault = "none" /\ ~out.rejected /\ out.res.status = 301

\* the answer to the follow-up request, to the Location of the 301, over the
\* store as it is
FollowUp ==
    fetch([req EXCEPT !.path = HeadersGet(out.res.headers, "Location")],
          EnvOf(renv.limiter, renv.fault)).out

\* C29: whenever the worker answers a request with 301 and Location L, a
\* follow-up request to L against the unchanged store is answered with a 200
\* directory listing, never another 301 and never 404, on every route that can
\* issue the redirect, /latest.json and /gpg.key included.
C29_RedirectsResolve ==
    Redirected =>
        /\ ~FollowUp.rejected
        /\ FollowUp.res.status = 200
        /\ FollowUp.res.body.kind \in {"html", "json"}

\* on the routes that mirror a prefix the redirect resolves
C29_RedirectsResolveUnderPrefix ==
    (Redirected /\ \E mount \in {"/aptrepo", "/yumrepo", "/plugins"} : startsWith(req.path, mount))
    => /\ ~FollowUp.rejected
       /\ FollowUp.res.status = 200
       /\ FollowUp.res.body.kind \in {"html", "json"}
       /\ HeadersGet(out.res.headers, "Location") = req.path \o "/"

\* a request to the two-segment path g/<second>, not a preflight, was answered
AskedOf(second) ==
    /\ ~Idle
    /\ req.path = "/api/v1/plugins/g/" \o second
    /\ req.method # "OPTIONS"
    /\ ~out.rejected

\* the answer of the version-metadata handler for a version of g
VersionLookup(version) ==
    IF ("plugins/g/" \o version \o "/manifest.json") \in DOMAIN objects
    THEN /\ out.res.status = 200
         /\ out.res.body = JsonBody([name |-> "g", version |-> version])
         /\ HeadersGet(out.res.headers, "Cache-Control") = "public, max-age=86400"
    ELSE /\ out.res.status = 404
         /\ out.res.body =
                JsonBody([error |-> "Version '" \o version \o "' not found for plugin 'g'"])

\* the answer of the install handler
InstallAnswered ==
    \/ InstallAccepted
    \/ /\ out.res.status = 400
       /\ out.res.body \in {RequiredFieldsError, JsonBody([error |-> "Invalid JSON body"])}

\* <name>/versions lists and <name>/latest resolves, whatever is stored
ActionsTakePrecedence ==
    /\ AskedOf("versions") => AnswersVersions(VersionPrefixes("g"))
    /\ AskedOf("latest") =>
            IF VersionPrefixes("g") = {}
            THEN /\ out.res.status = 404
                 /\ out.res.body = JsonBody([error |-> "Plugin 'g' not found"])
            ELSE VersionLookup(FirstVersion("g"))

\* C30 (as amended): on a two-segment path <name>/<second>, 'versions' and
\* 'latest' always go to their handlers: <name>/versions answers the version
\* list and <name>/latest the version-metadata answer for the highest version,
\* so a version directory named 'versions' or 'latest' is served by the
\* version-metadata handler only when /latest resolves to it; 'install' goes to
\* the install handler for POST, to the preflight 204 for OPTIONS, and with any
\* other method it is a lookup of version 'install' (the manifest at
\* plugins/<name>/install/manifest.json, else 404 "Version 'install' not
\* found for plugin '<name>'"), not an unknown endpoint.
C30_DispatchPrecedence ==
    /\ ActionsTakePrecedence
    /\ AskedOf("install") =>
            IF req.method = "POST" THEN InstallAnswered ELSE VersionLookup("install")
    /\ (~Idle /\ req.path = "/api/v1/plugins/g/install" /\ req.method = "OPTIONS")
            => PreflightAnswered

\* the manifest of a version directory of that name is stored and is the
\* response
ServedVersionDirectory(name) ==
    /\ ("plugins/g/" \o name \o "/manifest.json") \in DOMAIN objects
    /\ out.res.status = 200
    /\ out.res.body = JsonBody([name |-> "g", version |-> name])

\* C30 as stated: a version directory named 'versions' or 'latest' is never
\* served, and every method other than POST makes install a version lookup
C30_AsStated ==
    /\ ActionsTakePrecedence
    /\ ~Idle => (~ServedVersionDirectory("versions") /\ ~ServedVersionDirectory("latest"))
    /\ (~Idle /\ ~out.rejected /\ req.path = "/api/v1/plugins/g/install") =>
            IF req.method = "POST" THEN InstallAnswered ELSE VersionLookup("install")

\* a directory named versions is stored with its manifest, and g/versions
\* answers the list that names it
C30_Witness ==
    /\ AskedOf("versions")
    /\ "plugins/g/versions/manifest.json" \in DOMAIN objects
    /\ "plugins/g/0.9.0/manifest.json" \in DOMAIN objects
    /\ out.res.status = 200
    /\ out.res.body = JsonBody([versions |-> <<"versions", "0.9.0">>])

\* DELETE g/install is the lookup of a version named install
C30_WitnessInstall ==
    /\ AskedOf("install")
    /\ req.method = "DELETE"
    /\ "plugins/g/install/manifest.json" \in DOMAIN objects
    /\ out.res.status = 200
    /\ out.res.body = JsonBody([name |-> "g", version |-> "install"])

====
